---- MODULE Spec2Model ----
(***************************************************************************)
(* Pebble Sync: the import reconciler of the Obsidian plugin               *)
(* (PebbleSyncPlugin.importNow and its helpers) as a state machine.        *)
(*                                                                         *)
(* An importNow call is an async function: it runs synchronously up to an  *)
(* await, and the host's event loop may run any other callback (another    *)
(* importNow, a settings button, the timer) before it resumes.  Each await *)
(* is a step boundary; the variable cur names the call whose synchronous   *)
(* segment is executing (0 when the event loop is idle), so code between   *)
(* two awaits is never interleaved.                                        *)
(***************************************************************************)
EXTENDS Integers, Sequences, FiniteSets, TLC

VARIABLES
    settings,   \* this.settings (in memory)
    data,       \* importedKeys as last written by saveData (data.json)
    files,      \* atomic note files of the vault: records [path, text]
    folder,     \* TRUE when the atomic-notes folder exists in the vault
    daily,      \* daily note files of the vault: records [day, text]
    runs,       \* the importNow calls in flight, one slot per call
    cur,        \* slot whose synchronous segment is executing, 0 = none
    now,        \* the wall clock, in minutes
    notice,     \* the Notice the most recent importNow call opened
    last,       \* observation: how the importNow call that finished last ended
    remote,     \* the server: the items it holds and whether they may change
    calls,      \* number of importNow calls made so far
    timers      \* the plugin's timers: the interval and the startup delay

vars == <<settings, data, files, folder, daily, runs, cur, now, notice, last, remote,
          calls, timers>>

----------------------------------------------------------------------------
(* Bounds of the model *)

MaxInFlight == 2     \* importNow calls that may be in flight together
MaxBatch == 2        \* items in one fetched payload
MaxClock == 1        \* the last minute the clock reaches
MaxCalls == 2        \* importNow calls in one behaviour
MaxTimers == 3       \* intervals set in one behaviour
MaxPending == 2      \* 'Automatic sync interval' handlers awaiting saveSettings

(* Program constants *)

DefaultMaxImportedKeys == 5000      \* DEFAULT_SETTINGS.maxImportedKeys
MinutesPerDay == 1440               \* 'YYYY-MM-DD' changes once per 1440 minutes
FirstLineMax == 50                  \* firstLine.substring(0, 50)
Half == 65536                       \* Math.imul, |0 and >>>0 work on 32 bits: two halves

----------------------------------------------------------------------------
(* Strings are sequences of one-character strings. *)

NL == "\n"

CharCode(c) ==
    CASE c = "A" -> 65 [] c = "B" -> 66 [] c = "a" -> 97 [] c = "b" -> 98
      [] c = " " -> 32 [] c = "#" -> 35 [] c = "/" -> 47 [] c = NL -> 10
      [] c = "{" -> 123 [] c = "}" -> 125 [] c = "$" -> 36 [] c = "&" -> 38
      [] c = "t" -> 116 [] c = "g" -> 103 [] c = "s" -> 115
      [] c = "f" -> 102 [] c = "o" -> 111
      [] OTHER -> 63

(* The characters of a token that stands for several characters of a text *)
Chars(token) ==
    CASE token = "{{tags}}" -> <<"{", "{", "t", "a", "g", "s", "}", "}">>
      [] token = "{{foo}}" -> <<"{", "{", "f", "o", "o", "}", "}">>
      [] token = "$&" -> <<"$", "&">>
      [] token = "$$" -> <<"$", "$">>
      [] OTHER -> <<token>>

RECURSIVE Spell(_)
Spell(value) == IF value = <<>> THEN <<>> ELSE Chars(Head(value)) \o Spell(Tail(value))

ToLower(c) == CASE c = "A" -> "a" [] c = "B" -> "b" [] OTHER -> c
ToUpper(c) == CASE c = "a" -> "A" [] c = "b" -> "B" [] OTHER -> c

IsSpace(c) == c \in {" ", NL}
IsInvalidFileChar(c) == c \in {"\\", "/", ":", "*", "?", "\"", "<", ">", "|"}

LowerStr(s) == [i \in 1..Len(s) |-> ToLower(s[i])]

RECURSIVE TrimLeft(_)
TrimLeft(s) == IF s # <<>> /\ IsSpace(Head(s)) THEN TrimLeft(Tail(s)) ELSE s

RECURSIVE TrimRight(_)
TrimRight(s) ==
    IF s # <<>> /\ IsSpace(s[Len(s)]) THEN TrimRight(SubSeq(s, 1, Len(s) - 1)) ELSE s

Trim(s) == TrimRight(TrimLeft(s))

(* value.replace(/\s+/g, ' ') *)
RECURSIVE CollapseSpaces(_)
CollapseSpaces(s) ==
    IF s = <<>> THEN <<>>
    ELSE IF IsSpace(Head(s))
         THEN <<" ">> \o CollapseSpaces(TrimLeft(s))
         ELSE <<Head(s)>> \o CollapseSpaces(Tail(s))

(* A sanitising that only trims *)
TrimOnly(value) == Trim(value)

sanitizeFileName(value) ==
    Trim(CollapseSpaces([i \in 1..Len(value) |->
                            IF IsInvalidFileChar(value[i]) THEN "-" ELSE value[i]]))

(* hash = (Math.imul(31, hash) + charCode) | 0, then hash >>> 0: the value   *)
(* modulo 2^32, kept as its high and low 16 bits; toString(16) is one-to-one *)
(* on it and never the empty string.                                        *)
(* (the hash of each step is bound to its value before the next step)       *)
RECURSIVE HashFrom(_, _)
HashFrom(hash, value) ==
    IF value = <<>> THEN hash
    ELSE LET lo == 31 * hash.lo + CharCode(Head(value))
             hi == 31 * hash.hi + (lo \div Half)
         IN  CHOOSE out \in {HashFrom(next, Tail(value)) :
                               next \in {[hi |-> hi % Half, lo |-> lo % Half]}} : TRUE

hashContent(value) ==
    LET hash == HashFrom([hi |-> 0, lo |-> 0], Spell(value))
    IN  IF value = <<>> THEN <<"0">> ELSE <<ToString(hash.hi), ToString(hash.lo)>>

----------------------------------------------------------------------------
(* Remote items.  createdAt is a string or Absent (the field is missing).   *)

Absent == "<absent>"

(* moment(rawTimestamp): whether the string parses, and the minute it denotes *)
ParseMoment(raw) ==
    CASE raw = "T1"  -> [valid |-> TRUE, minute |-> 1]   \* 2024-01-05T10:30:00Z
      [] raw = "T1b" -> [valid |-> TRUE, minute |-> 1]   \* 2024-01-05T10:30:20Z
      [] OTHER -> [valid |-> FALSE, minute |-> 0]

Item(type, md, createdAt, tags, id) ==
    [type |-> type, markdown |-> md, createdAt |-> createdAt, tags |-> tags,
     id |-> id, uuid |-> "", key |-> ""]

NoteAa  == Item("note", <<"A", "a">>, "T1", <<>>, "")
NoteBB  == Item("note", <<"B", "B">>, "T1", <<>>, "")
NoteNow == Item("note", <<"b">>, Absent, <<>>, "")
NoteTag == Item("note", <<"a", NL, "b">>, "T1", << <<"#", "A">> >>, "")
NoteA   == Item("note", <<"A">>, "T1b", <<>>, "")
Task    == Item("task", <<"b">>, "T1", <<>>, "")

(* A markdown field that is not a string (a number, null, missing) *)
NotAString == <<"<not a string>">>
IsString(markdown) == markdown # NotAString

Todo     == Item("task", <<"B">>, "T1", <<>>, "")
Numbered == Item("note", NotAString, "T1b", << <<"u">> >>, "n")

Items == {NoteAa, NoteBB, NoteNow, NoteTag, NoteA, Task}

(* [timestamp, identifier, hash].filter(Boolean).join('|'): the key is the  *)
(* sequence of its non-empty segments, each a sequence of tokens.           *)
Truthy(str) == str # ""

(* A fingerprint that also depends on the tags *)
KeyWithTags(note) ==
    LET timestamp  == IF note.createdAt # Absent THEN note.createdAt ELSE ""
        identifier == IF Truthy(note.id) THEN note.id
                      ELSE IF Truthy(note.uuid) THEN note.uuid ELSE note.key
        hash       == hashContent(note.markdown)
    IN  (IF Truthy(timestamp) THEN << <<timestamp>> >> ELSE <<>>)
        \o (IF Truthy(identifier) THEN << <<identifier>> >> ELSE <<>>)
        \o <<hash>> \o note.tags

(* A fingerprint without the content hash *)
KeyWithoutHash(note) ==
    LET timestamp  == IF note.createdAt # Absent THEN note.createdAt ELSE ""
        identifier == IF Truthy(note.id) THEN note.id
                      ELSE IF Truthy(note.uuid) THEN note.uuid ELSE note.key
    IN  (IF Truthy(timestamp) THEN << <<timestamp>> >> ELSE <<>>)
        \o (IF Truthy(identifier) THEN << <<identifier>> >> ELSE <<>>)

makeDedupeKey(note) ==
    LET timestamp  == IF note.createdAt # Absent THEN note.createdAt ELSE ""
        identifier == IF Truthy(note.id) THEN note.id
                      ELSE IF Truthy(note.uuid) THEN note.uuid ELSE note.key
        hash       == hashContent(note.markdown)
    IN  (IF Truthy(timestamp) THEN << <<timestamp>> >> ELSE <<>>)
        \o (IF Truthy(identifier) THEN << <<identifier>> >> ELSE <<>>)
        \o <<hash>>

(* A creation moment that is always the current time *)
ClockMoment(rawTimestamp, clock) == clock

(* A creation moment that is always the parsed one, valid or not *)
ParsedMoment(rawTimestamp, clock) == ParseMoment(rawTimestamp).minute

(* resolveNoteMoment: the parsed moment when valid, else the current time *)
resolveNoteMoment(rawTimestamp, clock) ==
    LET candidate == ParseMoment(rawTimestamp)
    IN  IF candidate.valid THEN candidate.minute ELSE clock

PebbleNote == <<"P", "e", "b", "b", "l", "e", " ", "N", "o", "t", "e">>

(* tag.replace(/^#/, '').trim().toLowerCase() *)
NormalizeNoteTag(tag) ==
    LowerStr(Trim(IF tag # <<>> /\ Head(tag) = "#" THEN Tail(tag) ELSE tag))

(* settings.atomicNotesTags.split(',').map(trim, lower).filter(Boolean), in  *)
(* order, without repeats (a Set keeps the first insertion).                *)
RECURSIVE Dedupe(_)
Dedupe(seq) ==
    IF seq = <<>> THEN <<>>
    ELSE LET init == Dedupe(SubSeq(seq, 1, Len(seq) - 1))
             x    == seq[Len(seq)]
         IN  IF \E i \in 1..Len(init) : init[i] = x THEN init ELSE Append(init, x)

TriggerTags(atomicNotesTags) ==
    Dedupe(SelectSeq([i \in 1..Len(atomicNotesTags) |->
                         LowerStr(Trim(atomicNotesTags[i]))],
                     LAMBDA t : t # <<>>))

(* (note.markdown || '').split('\n')[0] *)
RECURSIVE FirstLine(_)
FirstLine(md) ==
    IF md = <<>> \/ Head(md) = NL THEN <<>> ELSE <<Head(md)>> \o FirstLine(Tail(md))

OrDefault(name) == IF name = <<>> THEN PebbleNote ELSE name

(* A base name taken from the first of the note's own tags that is a        *)
(* trigger tag                                                              *)
NameFromNoteTags(note, triggerTags) ==
    LET own == SelectSeq([i \in 1..Len(note.tags) |-> NormalizeNoteTag(note.tags[i])],
                         LAMBDA t : \E k \in 1..Len(triggerTags) : triggerTags[k] = t)
    IN  IF own # <<>>
        THEN OrDefault(sanitizeFileName(<<ToUpper(Head(own[1]))>> \o Tail(own[1])))
        ELSE IF Trim(FirstLine(note.markdown)) # <<>>
        THEN OrDefault(sanitizeFileName(
                 SubSeq(Trim(FirstLine(note.markdown)), 1,
                        IF Len(Trim(FirstLine(note.markdown))) < FirstLineMax
                        THEN Len(Trim(FirstLine(note.markdown))) ELSE FirstLineMax)))
        ELSE PebbleNote

(* (tags, matching and firstLine are each bound to their value once) *)
resolveBaseName(note, triggerTags) ==
    LET FromTag(m) == OrDefault(sanitizeFileName(<<ToUpper(Head(m))>> \o Tail(m)))
        FromLine(firstLine) ==
            IF firstLine # <<>>
            THEN OrDefault(sanitizeFileName(
                     SubSeq(firstLine, 1,
                            IF Len(firstLine) < FirstLineMax THEN Len(firstLine)
                            ELSE FirstLineMax)))
            ELSE PebbleNote
        Named(matching) ==
            IF matching # <<>>
            THEN FromTag(Head(matching))
            ELSE CHOOSE name \in {FromLine(firstLine) :
                                    firstLine \in {Trim(FirstLine(note.markdown))}} : TRUE
        Matching(tags) ==
            CHOOSE name \in {Named(matching) :
                               matching \in {SelectSeq(triggerTags, LAMBDA t : t \in tags)}} :
                TRUE
    IN  CHOOSE name \in {Matching(tags) :
                           tags \in {{NormalizeNoteTag(note.tags[i]) :
                                         i \in 1..Len(note.tags)}}} : TRUE

(* `${baseName} ${noteMoment.format('dddd, MMMM Do YYYY HH-mm')}.md` in the   *)
(* target folder: the format is one-to-one on minutes.                      *)
FileName(baseName, minute) == [name |-> baseName, minute |-> minute]

NotePath(note, triggerTags, clock) ==
    FileName(resolveBaseName(note, triggerTags),
             resolveNoteMoment(note.createdAt, clock))

----------------------------------------------------------------------------
(* Template rendering.  A template is a sequence of tokens: placeholders    *)
(* and literal text.  String.replace is applied five times in a row.        *)

(* The patterns have the flag i: a placeholder matches in any letter case *)
LowerToken(token) ==
    CASE token = "{{CONTENT}}" -> "{{content}}"
      [] token = "{{Time}}" -> "{{time}}"
      [] OTHER -> token

(* A replacement given as a string: '$&' stands for the matched text and    *)
(* '$$' for one '$'                                                         *)
Replacement(value, matched) ==
    [k \in 1..Len(value) |->
        CASE value[k] = "$&" -> matched [] value[k] = "$$" -> "$" [] OTHER -> value[k]]

ReplaceAll(text, placeholder, value) ==
    LET Pass(t) ==
            LET F[i \in 0..Len(t)] ==
                    IF i = 0 THEN <<>>
                    ELSE F[i - 1] \o (IF LowerToken(t[i]) = placeholder
                                      THEN Replacement(value, t[i]) ELSE <<t[i]>>)
            IN  F[Len(t)]
    IN  CHOOSE out \in {Pass(t) : t \in {text}} : TRUE

RECURSIVE JoinTags(_)
JoinTags(tags) ==
    IF tags = <<>> THEN <<>>
    ELSE IF Len(tags) = 1 THEN Head(tags)
    ELSE Head(tags) \o <<",", " ">> \o JoinTags(Tail(tags))

Day(minute) == minute \div MinutesPerDay

TemplateData(note, minute) ==
    [content      |-> note.markdown,
     date         |-> <<"D", ToString(Day(minute))>>,
     time         |-> <<"M", ToString(minute % MinutesPerDay)>>,
     fullDateTime |-> <<"D", ToString(Day(minute)), " ", "M",
                        ToString(minute % MinutesPerDay)>>,
     tags         |-> note.tags]

processTemplate(template, d) ==
    LET tagString == JoinTags(SelectSeq(d.tags, LAMBDA t : t # <<>>))
    IN  ReplaceAll(ReplaceAll(ReplaceAll(ReplaceAll(ReplaceAll(template,
            "{{content}}", d.content),
            "{{date}}", d.date),
            "{{time}}", d.time),
            "{{fullDateTime}}", d.fullDateTime),
            "{{tags}}", tagString)

(* DEFAULT_SETTINGS.atomicNotesTemplate, its literal text shortened *)
DefaultTemplate == <<"created: ", "{{fullDateTime}}", NL, "tags: ", "{{tags}}", NL,
                     "{{content}}">>

----------------------------------------------------------------------------
(* Daily note text is a sequence of tokens in which NL ends a line. *)

(* currentContent.split('\n') *)
RECURSIVE Split(_)
Split(text) ==
    IF \A i \in 1..Len(text) : text[i] # NL THEN <<text>>
    ELSE LET k == CHOOSE i \in 1..Len(text) :
                      text[i] = NL /\ \A j \in 1..(i - 1) : text[j] # NL
         IN  <<SubSeq(text, 1, k - 1)>>
             \o (CHOOSE lines \in {Split(rest) : rest \in {SubSeq(text, k + 1, Len(text))}} :
                    TRUE)

(* lines.join('\n') *)
RECURSIVE Join(_)
Join(lines) ==
    IF Len(lines) = 1 THEN Head(lines) ELSE Head(lines) \o <<NL>> \o Join(Tail(lines))

(* currentContent.includes(embedLink) *)
Includes(text, part) ==
    \E i \in 1..(Len(text) - Len(part) + 1) : SubSeq(text, i, i + Len(part) - 1) = part

(* `!${generateMarkdownLink(fileToLink, ...)}`: a wikilink to the file *)
EmbedLink(path) == <<"![[">> \o path.name \o <<" ", ToString(path.minute), "]]">>

RECURSIVE SkipHashes(_, _)
SkipHashes(text, p) ==
    IF p <= Len(text) /\ text[p] = "#" THEN SkipHashes(text, p + 1) ELSE p

RECURSIVE SkipSpaces(_, _)
SkipSpaces(text, p) ==
    IF p <= Len(text) /\ IsSpace(text[p]) THEN SkipSpaces(text, p + 1) ELSE p

RECURSIVE SkipBlanks(_, _)
SkipBlanks(text, p) ==
    IF p <= Len(text) /\ text[p] = " " THEN SkipBlanks(text, p + 1) ELSE p

(* headingSetting.replace(/^#+\s*/, '').trim() || 'Pebble Imports' *)
PebbleImports == <<"Pebble Imports">>

HeadingSetting(sectionHeading) == Trim(sectionHeading)

HeadingText(sectionHeading) ==
    LET hs   == HeadingSetting(sectionHeading)
        p    == SkipHashes(hs, 1)
        rest == IF p > 1 THEN SubSeq(hs, SkipSpaces(hs, p), Len(hs)) ELSE hs
    IN  IF Trim(rest) = <<>> THEN PebbleImports ELSE Trim(rest)

HeadingLine(sectionHeading) ==
    IF HeadingSetting(sectionHeading) # <<>> THEN HeadingSetting(sectionHeading)
    ELSE <<"#", "#", " ">> \o HeadingText(sectionHeading)

(* '^#+\\s+' + escapeRegExp(headingText) + '\\s*$' with flags 'mi', tried at  *)
(* position p of text                                                       *)
HeadingMatchAt(text, p, headingText) ==
    LET q1 == SkipHashes(text, p)
        q2 == SkipSpaces(text, q1)
        q3 == q2 + Len(headingText)
        q4 == SkipBlanks(text, q3)
    IN  /\ p = 1 \/ text[p - 1] = NL
        /\ q1 > p
        /\ q2 > q1
        /\ q3 <= Len(text) + 1
        /\ LowerStr(SubSeq(text, q2, q3 - 1)) = LowerStr(headingText)
        /\ q4 = Len(text) + 1 \/ text[q4] = NL

HeadingRegexTest(text, headingText) ==
    \E p \in 1..Len(text) : HeadingMatchAt(text, p, headingText)

(* /^#+\s/.test(line) *)
IsHeadingLine(line) ==
    LET q == SkipHashes(line, 1)
    IN  q > 1 /\ q <= Len(line) /\ IsSpace(line[q])

(* An insertion point that stays on the line after the heading *)
StayAtHeading(lines, insertIndex) == insertIndex

(* The splice of linkToDailyNote's heading-found branch; indices are the     *)
(* code's 0-based ones, lines[k] of the code is lines[k + 1] here.           *)
RECURSIVE SectionEnd(_, _)
SectionEnd(lines, insertIndex) ==
    IF insertIndex < Len(lines) /\ ~IsHeadingLine(lines[insertIndex + 1])
    THEN SectionEnd(lines, insertIndex + 1)
    ELSE insertIndex

(* (lines, headingIndex and insertIndex are each bound to their value once) *)
SpliceEmbed(currentContent, embedLink, headingText) ==
    LET FindIndex(lines) ==
            LET found == {k \in 1..Len(lines) : HeadingRegexTest(lines[k], headingText)}
            IN  IF found = {} THEN -1
                ELSE (CHOOSE k \in found : \A j \in found : k <= j) - 1
        Spliced(lines, insertIndex) ==
            LET insertion == IF insertIndex = 0 \/ Trim(lines[insertIndex]) # <<>>
                             THEN <<<<>>, embedLink>> ELSE <<embedLink>>
            IN  Join(SubSeq(lines, 1, insertIndex) \o insertion \o << <<>> >>
                     \o SubSeq(lines, insertIndex + 1, Len(lines)))
        FromHeading(lines, headingIndex) ==
            CHOOSE text \in {Spliced(lines, insertIndex) :
                               insertIndex \in {SectionEnd(lines, headingIndex + 1)}} : TRUE
        FromLines(lines) ==
            CHOOSE text \in {FromHeading(lines, headingIndex) :
                               headingIndex \in {FindIndex(lines)}} : TRUE
    IN  CHOOSE text \in {FromLines(lines) : lines \in {Split(currentContent)}} : TRUE

(* `\n\n${headingLine}\n${embedLink}\n` *)
Snippet(embedLink, sectionHeading) ==
    <<NL, NL>> \o HeadingLine(sectionHeading) \o <<NL>> \o embedLink \o <<NL>>


(* What linkToDailyNote does with the text it read: nothing, a modify with   *)
(* the spliced text, or an append of the snippet.                            *)
LinkPlan(currentContent, embedLink, sectionHeading) ==
    LET Plan(content, link, headingText) ==
            IF Includes(content, link) THEN [kind |-> "none", text |-> <<>>]
            ELSE IF HeadingRegexTest(content, headingText)
            THEN [kind |-> "modify", text |-> SpliceEmbed(content, link, headingText)]
            ELSE [kind |-> "append", text |-> Snippet(link, sectionHeading)]
    IN  CHOOSE plan \in {Plan(content, link, headingText) :
                           content \in {currentContent}, link \in {embedLink},
                           headingText \in {HeadingText(sectionHeading)}} : TRUE

----------------------------------------------------------------------------
(* Settings and the vault *)

(* normalizeApiUrl: '' for a blank url, else the url with a scheme and      *)
(* without trailing slashes                                                 *)
RECURSIVE StripTrailingSlashes(_)
StripTrailingSlashes(url) ==
    IF url # <<>> /\ url[Len(url)] = "/"
    THEN StripTrailingSlashes(SubSeq(url, 1, Len(url) - 1)) ELSE url

RECURSIVE StripLeadingSlashes(_)
StripLeadingSlashes(url) ==
    IF url # <<>> /\ Head(url) = "/" THEN StripLeadingSlashes(Tail(url)) ELSE url

normalizeApiUrl(rawUrl) ==
    LET url == Trim(rawUrl)
    IN  IF url = <<>> THEN <<>>
        ELSE IF Head(url) = "app://obsidian.md/"
        THEN StripTrailingSlashes(<<"https://">> \o Tail(url))
        ELSE IF ToLower(Head(url)) \in {"http://", "https://"}
        THEN StripTrailingSlashes(url)
        ELSE StripTrailingSlashes(<<"https://">> \o StripLeadingSlashes(url))

(* The four values the preconditions of importNow read *)
Config(apiUrl, apiKey, enabled, notesFolder) ==
    [apiUrl |-> apiUrl, apiKey |-> apiKey, atomicNotesEnabled |-> enabled,
     atomicNotesFolder |-> notesFolder]

GoodConfig == Config(<<"pebble.dev", "/">>, <<"k">>, TRUE, <<"P">>)

Configs == {GoodConfig,
            Config(<<" ">>, <<"k">>, TRUE, <<"P">>),
            Config(<<"pebble.dev">>, <<>>, TRUE, <<"P">>),
            Config(<<"pebble.dev">>, <<"k">>, FALSE, <<"P">>),
            Config(<<"pebble.dev">>, <<"k">>, TRUE, <<" ">>)}

(* The preconditions without the check of the folder *)
NoticeWithoutFolderCheck(s) ==
    IF normalizeApiUrl(s.apiUrl) = <<>> THEN "Configure a valid API URL before syncing."
    ELSE IF s.apiKey = <<>> THEN "API key is required."
    ELSE IF ~s.atomicNotesEnabled THEN "Enable atomic notes to run the importer."
    ELSE ""

(* The precondition that fails, as the text of its Notice; "" when all hold *)
PreconditionNotice(s) ==
    IF normalizeApiUrl(s.apiUrl) = <<>> THEN "Configure a valid API URL before syncing."
    ELSE IF s.apiKey = <<>> THEN "API key is required."
    ELSE IF ~s.atomicNotesEnabled THEN "Enable atomic notes to run the importer."
    ELSE IF Trim(s.atomicNotesFolder) = <<>>
    THEN "Set a folder for atomic notes in the settings."
    ELSE ""

(* A Set of keys in insertion order *)
HasKey(storedKeys, key) == \E k \in 1..Len(storedKeys) : storedKeys[k] = key

(* An add that moves a key already held to the newest end *)
AddKeyAsNewest(storedKeys, key) ==
    Append(SelectSeq(storedKeys, LAMBDA k : k # key), key)

AddKey(storedKeys, key) ==
    IF HasKey(storedKeys, key) THEN storedKeys ELSE Append(storedKeys, key)

(* A duplicate check that never finds the key *)
NeverDuplicate(force, storedKeys, key) == FALSE

(* The duplicate check with the force flag the wrong way round *)
IsDuplicateWhenForced(force, storedKeys, key) == force /\ HasKey(storedKeys, key)

(* !force && storedKeys.has(dedupeKey) *)
IsDuplicate(force, storedKeys, key) == ~force /\ HasKey(storedKeys, key)

(* The existing-file check with the force flag the wrong way round *)
KeepExistingWhenForced(existingFile, overwriteExisting, force) ==
    existingFile /\ ~overwriteExisting /\ force

(* The existing-file check without the overwrite setting and the force flag *)
KeepExistingAlways(existingFile, overwriteExisting, force) == existingFile

(* existingFile && !(settings.overwriteExisting || force) *)
KeepExisting(existingFile, overwriteExisting, force) ==
    existingFile /\ ~(overwriteExisting \/ force)

(* Number.isFinite(max) && max > 0 ? max : DEFAULT_SETTINGS.maxImportedKeys *)
MaxKeys(maxImportedKeys) ==
    IF maxImportedKeys > 0 THEN maxImportedKeys ELSE DefaultMaxImportedKeys

(* A flush without the slice *)
KeepAll(keys, maxKeys) == keys

(* Array.from(storedKeys).slice(-maxKeys) *)
SliceLast(keys, maxKeys) ==
    IF Len(keys) <= maxKeys THEN keys
    ELSE SubSeq(keys, Len(keys) - maxKeys + 1, Len(keys))

(* payload.items.filter(item => item?.type === 'note' && ...) *)
(* A payload passed on as it is *)
KeepAllItems(items) == items

FilterNotes(items) ==
    SelectSeq(items, LAMBDA it : it.type = "note" /\ IsString(it.markdown))


----------------------------------------------------------------------------
(* importNow calls *)

Slots == 1..MaxInFlight

NoOp == [kind |-> "none", path |-> FileName(<<>>, 0), text |-> <<>>]
NoPlan == [kind |-> "none", text |-> <<>>]
NoRun == [outcome |-> "none", force |-> FALSE, lost |-> FALSE, message |-> ""]

IdleRun ==
    [pc |-> "idle", force |-> FALSE, notes |-> <<>>, i |-> 0,
     storedKeys |-> <<>>, keysMutated |-> FALSE,
     createdCount |-> 0, updatedCount |-> 0,
     skippedDuplicates |-> 0, skippedExisting |-> 0,
     op |-> NoOp, plan |-> NoPlan,
     kept |-> {},       \* observation: keys added for files left as they were
     added |-> {},      \* observation: keys the run added that it did not hold
     stale |-> {},      \* observation: keys held when the history was cleared
     written |-> {},    \* observation: paths the run created or modified
     prev |-> NoRun]    \* observation: how the call before this one ended

(* The payloads the server may answer with: exactly remote.items, or, when  *)
(* the server's content changes between fetches, any selection of them in   *)
(* their order                                                              *)
BatchesOver(pool) == UNION {[1..n -> pool] : n \in 0..MaxBatch}

RECURSIVE Selections(_)
Selections(items) ==
    IF items = <<>> THEN {<<>>}
    ELSE LET rest == Selections(Tail(items))
         IN  rest \cup {<<Head(items)>> \o t : t \in rest}

Payloads(server) ==
    IF server.changing THEN Selections(server.items) ELSE {server.items}

Pools == {<<NoteAa, NoteNow>>, <<Task, NoteA>>}

ChangingServers == {[items |-> p, changing |-> TRUE] : p \in Pools}
FixedServers == {[items |-> b, changing |-> FALSE] : b \in BatchesOver(Items)}

(* The vault and data.json the session starts from *)
World(keys, maxImportedKeys, vault) ==
    [importedKeys |-> keys, maxImportedKeys |-> maxImportedKeys, files |-> vault]

UserText == <<"u">>
UserFile == [path |-> FileName(<<"A", "a">>, 1), text |-> UserText]

Worlds == {World(<<>>, 1, {}),
           World(<<>>, 0, {UserFile}),
           World(<<makeDedupeKey(NoteNow), makeDedupeKey(NoteAa)>>, 1, {})}

TypeOK ==
    /\ cur \in 0..MaxInFlight
    /\ now \in 0..MaxClock
    /\ folder \in BOOLEAN
    /\ \A r \in Slots : runs[r].pc \in {"idle", "fetch", "folder", "loop", "write",
                                        "dailyCreate", "dailyRead", "dailyWrite", "save"}

(* The timers of the plugin: intervalId (0 models null), the intervals the  *)
(* window still runs, the intervals handed to registerInterval, the         *)
(* 2-second startup timeout, and the 'Automatic sync interval' handlers     *)
(* that await saveSettings.  settings.autoRunInterval is kept here.         *)
Timers(loaded, autoRunInterval, startup) ==
    [loaded |-> loaded, autoRunInterval |-> autoRunInterval, intervalId |-> 0,
     live |-> {}, registered |-> {}, startup |-> startup, pending |-> 0,
     issued |-> 0, unsynced |-> FALSE]

(* A plugin with both automatic triggers off: lines 95-96 *)
NoTimers == Timers(TRUE, 0, FALSE)

(* An interval set without clearing the one before *)
SetupWithoutClear(t) ==
    IF t.autoRunInterval > 0
    THEN [t EXCEPT !.issued = @ + 1, !.intervalId = t.issued + 1,
                   !.live = @ \union {t.issued + 1},
                   !.registered = @ \union {t.issued + 1}, !.unsynced = FALSE]
    ELSE [t EXCEPT !.unsynced = FALSE]

(* setupAutoRun, lines 146-155: the interval of intervalId is cleared and,  *)
(* when autoRunInterval is positive, a new one is set and registered        *)
setupAutoRun(t) ==
    LET cleared == IF t.intervalId # 0
                   THEN [t EXCEPT !.live = @ \ {t.intervalId}]
                   ELSE t
    IN  IF cleared.autoRunInterval > 0
        THEN [cleared EXCEPT !.issued = @ + 1, !.intervalId = t.issued + 1,
                             !.live = @ \union {t.issued + 1},
                             !.registered = @ \union {t.issued + 1},
                             !.unsynced = FALSE]
        ELSE [cleared EXCEPT !.unsynced = FALSE]

(* parseInt(v, 10) || 0, line 519: leading blanks, a sign, then digits; a   *)
(* text without a leading digit gives NaN and so 0                          *)
Digits == <<"0", "1", "2", "3", "4", "5", "6", "7", "8", "9">>

IsDigit(c) == \E d \in 1..10 : Digits[d] = c

RECURSIVE DigitsValue(_, _)
DigitsValue(sofar, text) ==
    IF text = <<>> \/ ~IsDigit(Head(text))
    THEN sofar
    ELSE DigitsValue(sofar * 10 + (CHOOSE d \in 0..9 : Digits[d + 1] = Head(text)),
                     Tail(text))

parseInt(text) ==
    LET t == TrimLeft(text)
        signed == t # <<>> /\ Head(t) \in {"-", "+"}
        body == IF signed THEN Tail(t) ELSE t
    IN  IF body = <<>> \/ ~IsDigit(Head(body))
        THEN [nan |-> TRUE, value |-> 0]
        ELSE [nan |-> FALSE,
              value |-> IF Head(t) = "-"
                        THEN 0 - DigitsValue(0, body)
                        ELSE DigitsValue(0, body)]

ParsedInterval(text) ==
    LET parsed == parseInt(text)
    IN  IF parsed.nan THEN 0 ELSE parsed.value

InitVault ==
    /\ \E c \in Configs, ow \in BOOLEAN, lb \in BOOLEAN, l \in Worlds :
          settings = [apiUrl |-> c.apiUrl, apiKey |-> c.apiKey,
                      atomicNotesEnabled |-> c.atomicNotesEnabled,
                      atomicNotesFolder |-> c.atomicNotesFolder,
                      atomicNotesTags |-> << <<"a">>, <<" ", "B">> >>,
                      atomicNotesTemplate |-> DefaultTemplate,
                      importedKeys |-> l.importedKeys,
                      maxImportedKeys |-> l.maxImportedKeys,
                      overwriteExisting |-> ow, linkBackToDailyNote |-> lb,
                      sectionHeading |-> <<"#", "#", " ", "Pebble Imports">>]
          /\ files = l.files
    /\ data = settings.importedKeys
    /\ folder = (files # {})
    /\ daily = {}
    /\ runs = [r \in Slots |-> IdleRun]
    /\ cur = 0
    /\ now = 0
    /\ notice = ""
    /\ last = NoRun
    /\ calls = 0
    /\ timers = NoTimers

Init == InitVault /\ remote \in ChangingServers

----------------------------------------------------------------------------
(* The vault: getAbstractFileByPath, create, modify, append, read *)

Exists(vault, path) == \E f \in vault : f.path = path

(* A write that leaves the vault as it was *)
NothingWritten(vault, path, text) == vault

Written(vault, path, text) ==
    {f \in vault : f.path # path} \cup {[path |-> path, text |-> text]}

DailyExists(day) == \E f \in daily : f.day = day

DailyText(day) == (CHOOSE f \in daily : f.day = day).text

DailyWritten(day, text) ==
    {f \in daily : f.day # day} \cup {[day |-> day, text |-> text]}

(* How a call ended: its outcome, its force flag, whether its flush dropped *)
(* the fingerprint of one of its own records, and the last text of its      *)
(* syncNotice                                                               *)
Ended(run, outcome, lost, message) ==
    [outcome |-> outcome, force |-> run.force, lost |-> lost, message |-> message]

FreeSlot(r) == runs[r].pc = "idle" /\ \A q \in Slots : q < r => runs[q].pc # "idle"

Set(r, run) == runs' = [runs EXCEPT ![r] = run]

(* lines 312-325: the message that ends a run that did not fail *)
SummaryMessage(run) ==
    IF run.createdCount = 0 /\ run.updatedCount = 0
       /\ run.skippedDuplicates = 0 /\ run.skippedExisting = 0
    THEN "Nothing new to import." ELSE "Import complete."

(* What a fetch fails with.  cause is what went wrong outside the program   *)
(* and is not visible to it; the program sees the thrown value: null, a     *)
(* string, or an object that may carry response, status (0: none) and       *)
(* message (a sequence of words, empty: none).                              *)
Fault(cause, kind, response, status, message) ==
    [cause |-> cause, kind |-> kind, response |-> response, status |-> status,
     message |-> message]

RequestFailed == Fault("other", "object", FALSE, 0, <<"Request failed">>)

(* /network/i and /unauthorized|401/i on error.message *)
LowerWord(word) ==
    CASE word = "NETWORK" -> "network"
      [] word = "Unauthorized" -> "unauthorized"
      [] OTHER -> word

TestNetwork(message) ==
    \E k \in 1..Len(message) : LowerWord(message[k]) = "network"

TestUnauthorized(message) ==
    \E k \in 1..Len(message) : LowerWord(message[k]) \in {"unauthorized", "401"}

(* normalizeError, lines 423-453: the fixed part of the message it returns *)
normalizeError(error) ==
    IF error.kind = "null" THEN "Unknown error during import."
    ELSE IF error.kind = "string" THEN error.message[1]
    ELSE IF error.response THEN "API returned"
    ELSE IF error.status # 0 /\ error.message # <<>> THEN "API returned"
    ELSE IF error.message # <<>>
    THEN IF TestNetwork(error.message)
         THEN "Network error. Check your connection and URL."
         ELSE IF TestUnauthorized(error.message)
         THEN "Authorization failed. Verify your API key."
         ELSE "Import failed - "
    ELSE "Import failed due to an unexpected error."

(* catch (error): the run ends in the failed state *)
Fail(r) ==
    /\ Set(r, IdleRun)
    /\ last' = Ended(runs[r], "failed", FALSE, normalizeError(RequestFailed))
    /\ cur' = 0

(* The way the server of this behaviour makes a fetch fail *)
FaultOf(server) == IF "fault" \in DOMAIN server THEN server.fault ELSE RequestFailed

----------------------------------------------------------------------------
(* importNow reading no ledger: every record looks new to the run *)
StartRunNoLedger(force) ==
    [IdleRun EXCEPT !.pc = "fetch", !.force = force, !.prev = last]

(* importNow(force), lines 194-222: the preconditions, then the working     *)
(* copy of the ledger, up to the await of requestUrl                        *)
StartRun(force) ==
    [IdleRun EXCEPT !.pc = "fetch", !.force = force,
                    !.storedKeys = Dedupe(settings.importedKeys),
                    !.prev = last]

importNow(force) ==
    /\ cur = 0
    /\ calls < MaxCalls
    /\ calls' = calls + 1
    /\ \E r \in Slots :
          /\ FreeSlot(r)
          /\ IF PreconditionNotice(settings) # ""
             THEN /\ notice' = PreconditionNotice(settings)
                  /\ UNCHANGED runs
             ELSE /\ notice' = "Fetching notes..."
                  /\ Set(r, StartRun(force))
    /\ UNCHANGED <<settings, data, files, folder, daily, cur, now, last, remote>>

(* The ribbon icon and the two commands, lines 127-130: they exist while    *)
(* the plugin is loaded                                                     *)
Command(force) ==
    /\ timers.loaded
    /\ importNow(force)
    /\ UNCHANGED timers

(* A fetch awaited after ensureFolder: its failure leaves the folder behind *)
FetchFailsAfterFolder(r) ==
    /\ cur = 0 /\ runs[r].pc = "fetch"
    /\ Fail(r)
    /\ folder' = TRUE
    /\ UNCHANGED <<settings, data, files, daily, now, notice, remote, calls,
                   timers>>

(* requestUrl rejects, or the body does not parse: lines 225-234, 326-329 *)
FetchFails(r) ==
    /\ cur = 0 /\ runs[r].pc = "fetch"
    /\ Set(r, IdleRun)
    /\ last' = Ended(runs[r], "failed", FALSE, normalizeError(FaultOf(remote)))
    /\ cur' = 0
    /\ UNCHANGED <<settings, data, files, folder, daily, now, notice, remote, calls,
                   timers>>

(* requestUrl resolves: lines 234-245 *)
FetchDone(r) ==
    /\ cur = 0 /\ runs[r].pc = "fetch"
    /\ \E items \in Payloads(remote) :
          LET notes == FilterNotes(items)
              run   == [runs[r] EXCEPT !.notes = notes]
          IN  IF notes = <<>>
              THEN /\ Set(r, IdleRun)
                   /\ last' = Ended(run, "ok", FALSE, "No new notes to import.")
              ELSE /\ Set(r, [run EXCEPT !.pc = "folder"])
                   /\ UNCHANGED last
    /\ UNCHANGED <<settings, data, files, folder, daily, cur, now, notice, remote,
                   calls, timers>>

(* ensureFolder resolves (createFolder errors are swallowed); the loop starts *)
FolderDone(r) ==
    /\ cur = 0 /\ runs[r].pc = "folder"
    /\ folder' = TRUE
    /\ Set(r, [runs[r] EXCEPT !.pc = "loop", !.i = 1])
    /\ cur' = r
    /\ UNCHANGED <<settings, data, files, daily, now, notice, last, remote, calls,
                   timers>>

----------------------------------------------------------------------------
(* The per-record loop, lines 257-302 *)

InLoop(r) == cur = r /\ runs[r].pc = "loop" /\ runs[r].i <= Len(runs[r].notes)

Note(r) == runs[r].notes[runs[r].i]

TargetPath(r) == NotePath(Note(r), TriggerTags(settings.atomicNotesTags), now)

(* lines 258-262 *)
SkipDuplicate(r) ==
    /\ InLoop(r)
    /\ IsDuplicate(runs[r].force, runs[r].storedKeys, makeDedupeKey(Note(r)))
    /\ Set(r, [runs[r] EXCEPT !.skippedDuplicates = @ + 1, !.i = @ + 1])
    /\ UNCHANGED <<settings, data, files, folder, daily, cur, now, notice, last,
                   remote, calls, timers>>

(* lines 264-275 *)
SkipExisting(r) ==
    /\ InLoop(r)
    /\ ~IsDuplicate(runs[r].force, runs[r].storedKeys, makeDedupeKey(Note(r)))
    /\ KeepExisting(Exists(files, TargetPath(r)), settings.overwriteExisting,
                    runs[r].force)
    /\ Set(r, [runs[r] EXCEPT
                  !.storedKeys = AddKey(@, makeDedupeKey(Note(r))),
                  !.keysMutated = TRUE,
                  !.skippedExisting = @ + 1, !.i = @ + 1,
                  !.kept = @ \cup {makeDedupeKey(Note(r))},
                  !.added = @ \cup {makeDedupeKey(Note(r))},
                  !.stale = @ \ {makeDedupeKey(Note(r))}])
    /\ UNCHANGED <<settings, data, files, folder, daily, cur, now, notice, last,
                   remote, calls, timers>>

(* A write that always goes through vault.create *)
CreateOp(existingFile, path, text) == [kind |-> "create", path |-> path, text |-> text]

(* lines 277-292: the body is rendered and vault.modify or vault.create is   *)
(* called; the call suspends                                                *)
WriteOp(existingFile, path, text) ==
    [kind |-> IF existingFile THEN "modify" ELSE "create", path |-> path, text |-> text]

StartWrite(r) ==
    /\ InLoop(r)
    /\ ~IsDuplicate(runs[r].force, runs[r].storedKeys, makeDedupeKey(Note(r)))
    /\ ~KeepExisting(Exists(files, TargetPath(r)), settings.overwriteExisting,
                     runs[r].force)
    /\ \E path \in {TargetPath(r)} :
       \E fileContent \in {processTemplate(settings.atomicNotesTemplate,
                                           TemplateData(Note(r), path.minute))} :
          Set(r, [runs[r] EXCEPT
                     !.pc = "write",
                     !.op = WriteOp(Exists(files, path), path, fileContent)])
    /\ cur' = 0
    /\ UNCHANGED <<settings, data, files, folder, daily, now, notice, last, remote,
                   calls, timers>>

(* After a record's write and link: the next iteration of the loop runs in  *)
(* the same synchronous segment                                             *)
NextRecord(run) == [run EXCEPT !.pc = "loop", !.i = @ + 1, !.op = NoOp, !.plan = NoPlan]

(* A written file counted as created, and if it was modified also as updated *)
CountedTwice(run) ==
    [run EXCEPT !.createdCount = @ + 1,
                !.updatedCount = IF run.op.kind = "modify" THEN @ + 1 ELSE @,
                !.storedKeys = AddKey(@, makeDedupeKey(run.notes[run.i])),
                !.keysMutated = TRUE,
                !.added = IF HasKey(run.storedKeys, makeDedupeKey(run.notes[run.i]))
                          THEN @ ELSE @ \cup {makeDedupeKey(run.notes[run.i])},
                !.stale = @ \ {makeDedupeKey(run.notes[run.i])},
                !.written = @ \cup {run.op.path}]

(* lines 287-297, and linkToDailyNote up to its first await (ensureDailyFile *)
(* creates the daily file when it is missing, else the file is read)         *)
Counted(run) ==
    [run EXCEPT !.createdCount = IF run.op.kind = "create" THEN @ + 1 ELSE @,
                !.updatedCount = IF run.op.kind = "modify" THEN @ + 1 ELSE @,
                !.storedKeys = AddKey(@, makeDedupeKey(run.notes[run.i])),
                !.keysMutated = TRUE,
                !.added = IF HasKey(run.storedKeys, makeDedupeKey(run.notes[run.i]))
                          THEN @ ELSE @ \cup {makeDedupeKey(run.notes[run.i])},
                !.stale = @ \ {makeDedupeKey(run.notes[run.i])},
                !.written = @ \cup {run.op.path}]

WriteDone(r) ==
    /\ cur = 0 /\ runs[r].pc = "write"
    /\ runs[r].op.kind = "create" => ~Exists(files, runs[r].op.path)
    /\ files' = Written(files, runs[r].op.path, runs[r].op.text)
    /\ IF settings.linkBackToDailyNote
       THEN /\ Set(r, [Counted(runs[r]) EXCEPT
                          !.pc = IF DailyExists(Day(runs[r].op.path.minute))
                                 THEN "dailyRead" ELSE "dailyCreate"])
            /\ UNCHANGED cur
       ELSE /\ Set(r, NextRecord(Counted(runs[r])))
            /\ cur' = r
    /\ UNCHANGED <<settings, data, folder, daily, now, notice, last, remote, calls,
                   timers>>

(* vault.create rejects because the path is taken, or the write fails *)
WriteFails(r) ==
    /\ cur = 0 /\ runs[r].pc = "write"
    /\ Fail(r)
    /\ UNCHANGED <<settings, data, files, folder, daily, now, notice, remote, calls,
                   timers>>

(* ensureDailyFile, lines 455-472: the daily file is created empty *)
DailyCreateDone(r) ==
    /\ cur = 0 /\ runs[r].pc = "dailyCreate"
    /\ ~DailyExists(Day(runs[r].op.path.minute))
    /\ daily' = DailyWritten(Day(runs[r].op.path.minute), <<>>)
    /\ Set(r, [runs[r] EXCEPT !.pc = "dailyRead"])
    /\ UNCHANGED <<settings, data, files, folder, cur, now, notice, last, remote,
                   calls, timers>>

(* vault.read resolves, lines 345-373: the text is searched and the modify   *)
(* or append is called                                                      *)
DailyReadDone(r) ==
    /\ cur = 0 /\ runs[r].pc = "dailyRead"
    /\ \E plan \in {LinkPlan(DailyText(Day(runs[r].op.path.minute)),
                             EmbedLink(runs[r].op.path), settings.sectionHeading)} :
           IF plan.kind = "none"
           THEN Set(r, NextRecord(runs[r])) /\ cur' = r
           ELSE Set(r, [runs[r] EXCEPT !.pc = "dailyWrite", !.plan = plan])
                /\ UNCHANGED cur
    /\ UNCHANGED <<settings, data, files, folder, daily, now, notice, last, remote,
                   calls, timers>>

(* vault.modify / vault.append of the daily file resolves *)
DailyWriteDone(r) ==
    /\ cur = 0 /\ runs[r].pc = "dailyWrite"
    /\ LET day == Day(runs[r].op.path.minute)
       IN  daily' = DailyWritten(day,
                        IF runs[r].plan.kind = "modify" THEN runs[r].plan.text
                        ELSE DailyText(day) \o runs[r].plan.text)
    /\ Set(r, NextRecord(runs[r]))
    /\ cur' = r
    /\ UNCHANGED <<settings, data, files, folder, now, notice, last, remote, calls,
                   timers>>

(* A link failure that flushes the working ledger before the run fails *)
LinkFailsAfterFlush(r) ==
    /\ cur = 0 /\ runs[r].pc \in {"dailyCreate", "dailyRead", "dailyWrite"}
    /\ Fail(r)
    /\ settings' = [settings EXCEPT !.importedKeys =
                       SliceLast(runs[r].storedKeys, MaxKeys(settings.maxImportedKeys))]
    /\ UNCHANGED <<data, files, folder, daily, now, notice, remote, calls,
                   timers>>

(* An await of linkToDailyNote rejects *)
LinkFails(r) ==
    /\ cur = 0 /\ runs[r].pc \in {"dailyCreate", "dailyRead", "dailyWrite"}
    /\ Fail(r)
    /\ UNCHANGED <<settings, data, files, folder, daily, now, notice, remote, calls,
                   timers>>

(* lines 304-325, after the last record *)
Flushed(storedKeys, maxImportedKeys) == SliceLast(storedKeys, MaxKeys(maxImportedKeys))

LosesBatchKey(run, kept) ==
    \E k \in 1..Len(run.notes) : ~HasKey(kept, makeDedupeKey(run.notes[k]))

LoopEnd(r) ==
    /\ cur = r /\ runs[r].pc = "loop" /\ runs[r].i > Len(runs[r].notes)
    /\ cur' = 0
    /\ IF runs[r].keysMutated
       THEN /\ settings' = [settings EXCEPT !.importedKeys =
                               Flushed(runs[r].storedKeys, settings.maxImportedKeys)]
            /\ Set(r, [runs[r] EXCEPT !.pc = "save",
                          !.plan = [kind |-> "save",
                                    text |-> settings'.importedKeys]])
            /\ UNCHANGED last
       ELSE /\ Set(r, IdleRun)
            /\ last' = Ended(runs[r], "ok", FALSE, SummaryMessage(runs[r]))
            /\ UNCHANGED settings
    /\ UNCHANGED <<data, files, folder, daily, now, notice, remote, calls,
                   timers>>

(* saveSettings resolves: data.json holds the flushed ledger *)
SaveDone(r) ==
    /\ cur = 0 /\ runs[r].pc = "save"
    /\ data' = runs[r].plan.text
    /\ Set(r, IdleRun)
    /\ last' = Ended(runs[r], "ok", LosesBatchKey(runs[r], runs[r].plan.text),
                      SummaryMessage(runs[r]))
    /\ UNCHANGED <<settings, files, folder, daily, cur, now, notice, remote, calls,
                   timers>>

(* saveSettings rejects: the run fails with settings.importedKeys already   *)
(* replaced in memory and data.json as it was                               *)
SaveFails(r) ==
    /\ cur = 0 /\ runs[r].pc = "save"
    /\ Fail(r)
    /\ UNCHANGED <<settings, data, files, folder, daily, now, notice, remote, calls,
                   timers>>

----------------------------------------------------------------------------
(* Settings tab, 'Forget imported history', lines 540-544 *)
Forget ==
    /\ cur = 0
    /\ settings' = [settings EXCEPT !.importedKeys = <<>>]
    /\ data' = <<>>
    /\ last' = NoRun
    /\ runs' = [r \in Slots |->
                   [runs[r] EXCEPT !.prev = NoRun,
                                   !.stale = {runs[r].storedKeys[k] :
                                                 k \in 1..Len(runs[r].storedKeys)}]]
    /\ UNCHANGED <<files, folder, daily, cur, now, notice, remote, calls,
                   timers>>

(* Time passes between callbacks *)
Tick ==
    /\ cur = 0
    /\ now < MaxClock
    /\ now' = now + 1
    /\ UNCHANGED <<settings, data, files, folder, daily, runs, cur, notice, last,
                   remote, calls, timers>>

----------------------------------------------------------------------------
(* Settings tab, 'Automatic sync interval', line 519, up to the await of    *)
(* saveSettings                                                             *)
ChangeInterval(text) ==
    /\ cur = 0
    /\ timers.loaded
    /\ timers.pending < MaxPending
    /\ timers.issued + timers.pending < MaxTimers
    /\ timers' = [timers EXCEPT !.autoRunInterval = ParsedInterval(text),
                                !.pending = @ + 1, !.unsynced = TRUE]
    /\ UNCHANGED <<settings, data, files, folder, daily, runs, cur, now, notice, last,
                   remote, calls>>

(* ... saveSettings resolves, line 162, and setupAutoRun runs *)
SettingsSaved ==
    /\ cur = 0
    /\ timers.pending > 0
    /\ data' = settings.importedKeys
    /\ timers' = setupAutoRun([timers EXCEPT !.pending = @ - 1])
    /\ UNCHANGED <<settings, files, folder, daily, runs, cur, now, notice, last,
                   remote, calls>>

(* ... or saveSettings rejects, and setupAutoRun is not reached *)
SettingsNotSaved ==
    /\ cur = 0
    /\ timers.pending > 0
    /\ timers' = [timers EXCEPT !.pending = @ - 1]
    /\ UNCHANGED <<settings, data, files, folder, daily, runs, cur, now, notice, last,
                   remote, calls>>

(* The interval fires: () => this.importNow(false), line 151 *)
IntervalFires ==
    /\ timers.live # {}
    /\ importNow(FALSE)
    /\ UNCHANGED timers

(* The startup timeout fires: () => this.importNow(false), line 136 *)
StartupFires ==
    /\ timers.startup
    /\ importNow(FALSE)
    /\ timers' = [timers EXCEPT !.startup = FALSE]

(* onunload, lines 140-144, and the unloading of the component, which       *)
(* clears the registered intervals and removes the commands and tabs        *)
onunload ==
    /\ cur = 0
    /\ timers.loaded
    /\ timers' = [timers EXCEPT !.loaded = FALSE,
                                !.live = (@ \ {timers.intervalId}) \ timers.registered,
                                !.registered = {}]
    /\ UNCHANGED <<settings, data, files, folder, daily, runs, cur, now, notice, last,
                   remote, calls>>

Step(r) ==
    \/ FetchFails(r) \/ FetchDone(r) \/ FolderDone(r)
    \/ SkipDuplicate(r) \/ SkipExisting(r) \/ StartWrite(r)
    \/ WriteDone(r) \/ WriteFails(r)
    \/ DailyCreateDone(r) \/ DailyReadDone(r) \/ DailyWriteDone(r) \/ LinkFails(r)
    \/ LoopEnd(r) \/ SaveDone(r) \/ SaveFails(r)

Next ==
    \/ \E force \in BOOLEAN : Command(force)
    \/ \E r \in Slots : Step(r)
    \/ Forget
    \/ Tick

Spec == Init /\ [][Next]_vars

(* The same program when the user waits for one import to end before the    *)
(* next is triggered                                                        *)
NoRunInFlight == \A r \in Slots : runs[r].pc = "idle"

NextSeq ==
    \/ \E force \in BOOLEAN : NoRunInFlight /\ Command(force)
    \/ \E r \in Slots : Step(r)
    \/ Forget
    \/ Tick

SpecSeq == Init /\ [][NextSeq]_vars

(* ... and every fetch returns the same batch, and the user does nothing   *)
(* but trigger imports                                                      *)
NextSame ==
    \/ \E force \in BOOLEAN : NoRunInFlight /\ Command(force)
    \/ \E r \in Slots : Step(r)
    \/ Tick

InitSame == InitVault /\ remote \in FixedServers

SpecSame == InitSame /\ [][NextSame]_vars

(* Daily notes the user already has, and section headings the user may have *)
(* set; imports are triggered one at a time and link back                   *)
Headings == {<<"#", "#", " ", "Pebble Imports">>,     \* the default
             <<>>,                                    \* blank: '## Pebble Imports'
             <<"#", " ", "a">>,                       \* another level and case
             <<"A">>}                                 \* no '#': never matched

DailyTexts ==
    {<<>>,
     <<"#", "#", " ", "Pebble Imports", NL, "![[x]]", NL, "#", "#", " ", "Other">>,
     <<"#", " ", "Pebble Imports", " ", NL, "x", NL, NL, "#", " ", "Other", NL, "y">>,
     <<"t", NL, "#", "#", "#", " ", "A", NL, "#", "t", NL, "B">>,
     <<"#", "#", NL, "Pebble Imports", NL, "#", "#", " ", "Other">>,
     <<"#", "#", " ", "Other", NL, "x">>}

InitDaily ==
    /\ \E h \in Headings :
          settings = [apiUrl |-> GoodConfig.apiUrl, apiKey |-> GoodConfig.apiKey,
                      atomicNotesEnabled |-> TRUE,
                      atomicNotesFolder |-> GoodConfig.atomicNotesFolder,
                      atomicNotesTags |-> << <<"a">>, <<" ", "B">> >>,
                      atomicNotesTemplate |-> DefaultTemplate,
                      importedKeys |-> <<>>, maxImportedKeys |-> 0,
                      overwriteExisting |-> FALSE, linkBackToDailyNote |-> TRUE,
                      sectionHeading |-> h]
    /\ data = <<>>
    /\ files = {}
    /\ folder = FALSE
    /\ daily \in {{}} \cup {{[day |-> 0, text |-> t]} : t \in DailyTexts}
    /\ runs = [r \in Slots |-> IdleRun]
    /\ cur = 0
    /\ now = 0
    /\ notice = ""
    /\ last = NoRun
    /\ calls = 0
    /\ timers = NoTimers
    /\ remote \in ChangingServers

SpecDaily == InitDaily /\ [][NextSeq]_vars

(* An import that fails is repeated without force on the same batch, and    *)
(* nothing fails after the first call; link-back is enabled and the vault   *)
(* starts empty.  Every step that is not a failure is taken eventually.     *)
RetryBatches == BatchesOver({NoteAa, NoteNow})

InitRetry ==
    /\ \E ow \in BOOLEAN :
          settings = [apiUrl |-> GoodConfig.apiUrl, apiKey |-> GoodConfig.apiKey,
                      atomicNotesEnabled |-> TRUE,
                      atomicNotesFolder |-> GoodConfig.atomicNotesFolder,
                      atomicNotesTags |-> << <<"a">>, <<" ", "B">> >>,
                      atomicNotesTemplate |-> DefaultTemplate,
                      importedKeys |-> <<>>, maxImportedKeys |-> 0,
                      overwriteExisting |-> ow, linkBackToDailyNote |-> TRUE,
                      sectionHeading |-> <<"#", "#", " ", "Pebble Imports">>]
    /\ data = <<>>
    /\ files = {}
    /\ folder = FALSE
    /\ daily = {}
    /\ runs = [r \in Slots |-> IdleRun]
    /\ cur = 0
    /\ now = 0
    /\ notice = ""
    /\ last = NoRun
    /\ calls = 0
    /\ timers = NoTimers
    /\ remote \in {[items |-> b, changing |-> FALSE] : b \in RetryBatches}

Retry == NoRunInFlight /\ Command(FALSE)

Proceed(r) ==
    \/ FetchDone(r) \/ FolderDone(r)
    \/ SkipDuplicate(r) \/ SkipExisting(r) \/ StartWrite(r) \/ WriteDone(r)
    \/ DailyCreateDone(r) \/ DailyReadDone(r) \/ DailyWriteDone(r)
    \/ LoopEnd(r) \/ SaveDone(r)

FirstCallFails ==
    /\ calls = 1
    /\ \E r \in Slots : FetchFails(r) \/ WriteFails(r) \/ LinkFails(r) \/ SaveFails(r)

NextRetry == Retry \/ (\E r \in Slots : Proceed(r)) \/ FirstCallFails \/ Tick

SpecRetry ==
    /\ InitRetry /\ [][NextRetry]_vars
    /\ WF_vars(Retry)
    /\ \A r \in Slots : WF_vars(Proceed(r))

(* Records that differ in one field at a time, and templates; every fetch   *)
(* returns the same two records                                             *)
Variants ==
    {NoteAa,
     [NoteAa EXCEPT !.tags = << <<"#", "A">> >>],
     [NoteAa EXCEPT !.id = "x"],
     [NoteAa EXCEPT !.uuid = "x"],
     [NoteAa EXCEPT !.key = "x", !.tags = << <<"t">> >>],
     [NoteAa EXCEPT !.id = "y", !.uuid = "x"],
     Item("note", <<"{{tags}}", "{{foo}}">>, "T1", << <<"t">>, <<>>, <<"u">> >>, ""),
     Item("note", <<"$&", "$$">>, "T1", <<>>, ""),
     Item("note", <<"b">>, "bad", <<>>, ""),
     NoteNow, Todo, Numbered}

Templates ==
    {DefaultTemplate,
     <<"{{CONTENT}}", NL, "{{date}}", "{{foo}}", "{{Time}}", "$&", "{{content}}">>}

InitRecords ==
    /\ \E t \in Templates :
          settings = [apiUrl |-> GoodConfig.apiUrl, apiKey |-> GoodConfig.apiKey,
                      atomicNotesEnabled |-> TRUE,
                      atomicNotesFolder |-> GoodConfig.atomicNotesFolder,
                      atomicNotesTags |-> << <<"a">>, <<" ", "B">> >>,
                      atomicNotesTemplate |-> t,
                      importedKeys |-> <<>>, maxImportedKeys |-> 0,
                      overwriteExisting |-> FALSE, linkBackToDailyNote |-> TRUE,
                      sectionHeading |-> <<"#", "#", " ", "Pebble Imports">>]
    /\ data = <<>>
    /\ files = {}
    /\ folder = FALSE
    /\ daily = {}
    /\ runs = [r \in Slots |-> IdleRun]
    /\ cur = 0
    /\ now = 0
    /\ notice = ""
    /\ last = NoRun
    /\ calls = 0
    /\ timers = NoTimers
    /\ remote \in {[items |-> <<p, q>>, changing |-> FALSE] : p, q \in Variants}

SpecRecords == InitRecords /\ [][NextSame]_vars

----------------------------------------------------------------------------
(* Properties *)

(* Trigger-tag settings and notes whose tags and first lines exercise the   *)
(* naming of files; every fetch returns the same two records                *)
TagSettings ==
    {<< <<"a">>, <<" ", "B">> >>,                  \* 'a, B'
     << <<"b">>, <<"a">>, <<"b">> >>,              \* 'b,a,b'
     << <<"a", "/", "b">>, <<"a">> >>,             \* 'a/b,a': a nested tag first
     << <<>>, <<" ">> >>}                          \* ', ': no trigger tag

LongLine == [i \in 1..(FirstLineMax + 2) |-> IF i = FirstLineMax THEN " " ELSE "a"]

NamedNotes ==
    {Item("note", <<"b">>, "T1", << <<"#", "A">>, <<"b">> >>, ""),
     Item("note", <<"A", "a">>, "T1", << <<"B", " ">>, <<"#", "a">> >>, ""),
     Item("note", <<"b">>, "T1", << <<"#", "a", "/", "b">> >>, "x"),
     Item("note", <<"b">>, "T1b", << <<"#", "#", "a">>, <<"u">> >>, "y"),
     Item("note", <<" ", "a", "/", " ", " ", "b", ":", NL, "t">>, "T1", <<>>, ""),
     Item("note", <<NL, "a">>, "T1", <<>>, ""),
     Item("note", <<>>, "T1b", <<>>, ""),
     Item("note", <<"/">>, "T1", <<>>, ""),
     Item("note", LongLine, "T1", <<>>, "")}

InitNames ==
    /\ \E t \in TagSettings :
          settings = [apiUrl |-> GoodConfig.apiUrl, apiKey |-> GoodConfig.apiKey,
                      atomicNotesEnabled |-> TRUE,
                      atomicNotesFolder |-> GoodConfig.atomicNotesFolder,
                      atomicNotesTags |-> t,
                      atomicNotesTemplate |-> DefaultTemplate,
                      importedKeys |-> <<>>, maxImportedKeys |-> 0,
                      overwriteExisting |-> FALSE, linkBackToDailyNote |-> TRUE,
                      sectionHeading |-> <<"#", "#", " ", "Pebble Imports">>]
    /\ data = <<>>
    /\ files = {}
    /\ folder = FALSE
    /\ daily = {}
    /\ runs = [r \in Slots |-> IdleRun]
    /\ cur = 0
    /\ now = 0
    /\ notice = ""
    /\ last = NoRun
    /\ calls = 0
    /\ timers = NoTimers
    /\ remote \in {[items |-> <<p, q>>, changing |-> FALSE] : p, q \in NamedNotes}

SpecNames == InitNames /\ [][NextSame]_vars

(* Servers whose fetch fails in one of several ways: an HTTP 401 as         *)
(* requestUrl reports it (an error with status and message), as an error    *)
(* with a response, or as a bare message; an unreachable host; a body that  *)
(* is not JSON (the SyntaxError of JSON.parse); other failures               *)
Faults ==
    {Fault("unauthorized", "object", FALSE, 401, <<"Request failed, status ", "401">>),
     Fault("unauthorized", "object", TRUE, 401, <<>>),
     Fault("unauthorized", "object", FALSE, 0, <<"Unauthorized">>),
     Fault("unreachable", "object", FALSE, 0, <<"net::ERR_", "NETWORK", "_CHANGED">>),
     Fault("unreachable", "object", FALSE, 0, <<"net::ERR_CONNECTION_REFUSED">>),
     Fault("malformed", "object", FALSE, 0, <<"Unexpected token < in JSON">>),
     Fault("other", "object", FALSE, 500, <<"Request failed, status ", "500">>),
     Fault("other", "object", FALSE, 0, <<>>),
     Fault("other", "string", FALSE, 0, <<"boom">>),
     Fault("other", "null", FALSE, 0, <<>>),
     RequestFailed}

InitFetch ==
    /\ \E ow \in BOOLEAN :
          settings = [apiUrl |-> GoodConfig.apiUrl, apiKey |-> GoodConfig.apiKey,
                      atomicNotesEnabled |-> TRUE,
                      atomicNotesFolder |-> GoodConfig.atomicNotesFolder,
                      atomicNotesTags |-> << <<"a">>, <<" ", "B">> >>,
                      atomicNotesTemplate |-> DefaultTemplate,
                      importedKeys |-> <<>>, maxImportedKeys |-> 0,
                      overwriteExisting |-> ow, linkBackToDailyNote |-> TRUE,
                      sectionHeading |-> <<"#", "#", " ", "Pebble Imports">>]
    /\ data = <<>>
    /\ files = {}
    /\ folder = FALSE
    /\ daily = {}
    /\ runs = [r \in Slots |-> IdleRun]
    /\ cur = 0
    /\ now = 0
    /\ notice = ""
    /\ last = NoRun
    /\ calls = 0
    /\ timers = NoTimers
    /\ remote \in {[items |-> b, changing |-> FALSE, fault |-> f] :
                      b \in RetryBatches, f \in Faults}

SpecFetch == InitFetch /\ [][NextSame]_vars

(* The plugin with its timers: onload, lines 123-138, has run with either   *)
(* startup setting and a stored interval; the user changes the interval,    *)
(* triggers imports and disables the plugin.  Every fetch returns the same  *)
(* batch.                                                                   *)
Entries == {<<>>, <<"0">>, <<"5">>, <<"1", "5">>, <<"-", "5">>, <<" ", "5", "m">>, <<"m">>}

onload(autoRunOnStartup, autoRunInterval) ==
    setupAutoRun(Timers(TRUE, autoRunInterval, autoRunOnStartup))

InitTimers ==
    /\ settings = [apiUrl |-> GoodConfig.apiUrl, apiKey |-> GoodConfig.apiKey,
                   atomicNotesEnabled |-> TRUE,
                   atomicNotesFolder |-> GoodConfig.atomicNotesFolder,
                   atomicNotesTags |-> << <<"a">>, <<" ", "B">> >>,
                   atomicNotesTemplate |-> DefaultTemplate,
                   importedKeys |-> <<>>, maxImportedKeys |-> 0,
                   overwriteExisting |-> FALSE, linkBackToDailyNote |-> TRUE,
                   sectionHeading |-> <<"#", "#", " ", "Pebble Imports">>]
    /\ data = <<>>
    /\ files = {}
    /\ folder = FALSE
    /\ daily = {}
    /\ runs = [r \in Slots |-> IdleRun]
    /\ cur = 0
    /\ now = 0
    /\ notice = ""
    /\ last = NoRun
    /\ calls = 0
    /\ timers \in {onload(startup, ParsedInterval(stored)) :
                      startup \in BOOLEAN, stored \in {<<"0">>, <<"5">>}}
    /\ remote \in {[items |-> b, changing |-> FALSE] : b \in {<<NoteAa>>}}

NextTimers ==
    \/ \E force \in BOOLEAN : NoRunInFlight /\ Command(force)
    \/ \E r \in Slots : Step(r)
    \/ \E text \in Entries : ChangeInterval(text)
    \/ SettingsSaved
    \/ SettingsNotSaved
    \/ IntervalFires
    \/ StartupFires
    \/ onunload

SpecTimers == InitTimers /\ [][NextTimers]_vars

InFlight == {r \in Slots : runs[r].pc # "idle"}

(* A call r ends in this step *)
Ends(r) == runs[r].pc # "idle" /\ runs'[r].pc = "idle"

(* The call before run ended without error and was not forced *)
AfterPlainRun(run) == run.prev.outcome = "ok" /\ ~run.prev.force

(* A run that repeats the batch has, so far, only skipped duplicates *)
OnlyDuplicates(run) ==
    /\ run.pc \in {"folder", "loop"}
    /\ run.createdCount = 0 /\ run.updatedCount = 0 /\ run.skippedExisting = 0
    /\ run.skippedDuplicates = (IF run.pc = "loop" THEN run.i - 1 ELSE 0)

(* C1 as stated: a second importNow(false) on the identical batch creates   *)
(* and updates nothing and skips every record as a duplicate (it reaches    *)
(* the end of the loop with skippedDuplicates = number of records).         *)
C1_Idempotent ==
    \A r \in Slots :
        (runs[r].pc \notin {"idle", "fetch"} /\ ~runs[r].force
         /\ AfterPlainRun(runs[r]))
        => OnlyDuplicates(runs[r])

(* C1, amended: the same, provided the first run's end-of-run eviction      *)
(* dropped the fingerprint of none of the batch's records.                  *)
C1_IdempotentUnlessEvicted ==
    \A r \in Slots :
        (runs[r].pc \notin {"idle", "fetch"} /\ ~runs[r].force
         /\ AfterPlainRun(runs[r]) /\ ~runs[r].prev.lost)
        => OnlyDuplicates(runs[r])

C1_Witness ==
    \E r \in Slots :
        /\ runs[r].pc = "loop" /\ ~runs[r].force
        /\ AfterPlainRun(runs[r]) /\ ~runs[r].prev.lost
        /\ Len(runs[r].notes) = 2 /\ runs[r].i = 3
        /\ runs[r].skippedDuplicates = 2
        /\ files # {}

(* C2: at most one importNow call is in flight at any time: a call made    *)
(* while another has not finished starts no run.                            *)
C2_SingleFlight == Cardinality(InFlight) <= 1

(* C3: a run's flush of importedKeys discards no fingerprint that entered   *)
(* the persisted ledger after the run took its working copy: a key the      *)
(* flush removes is one the run's working copy holds (removed by eviction). *)
C3_NoLostUpdate ==
    [][\A r \in Slots :
          (runs[r].pc = "loop" /\ runs'[r].pc = "save")
          => \A k \in 1..Len(settings.importedKeys) :
                \/ HasKey(settings'.importedKeys, settings.importedKeys[k])
                \/ HasKey(runs[r].storedKeys, settings.importedKeys[k])]_vars

----------------------------------------------------------------------------
(* The ledger bound *)

WithinBound(keys) == Len(keys) <= MaxKeys(settings.maxImportedKeys)

(* C4 as stated: once an import run has ended, however it ended, the        *)
(* persisted ledger holds at most maxImportedKeys entries.                  *)
C4_BoundAfterAnyRun == last.outcome # "none" => WithinBound(data)

(* C4, amended: a run that added a fingerprint and ended without error      *)
(* leaves at most maxImportedKeys entries in the persisted ledger; no step  *)
(* of any run replaces the ledger, in memory or in data.json, by one above  *)
(* the bound; a run that added nothing leaves both as they were.            *)
C4_BoundAfterFlush ==
    [][/\ settings'.importedKeys # settings.importedKeys
            => WithinBound(settings'.importedKeys)
       /\ data' # data => WithinBound(data')
       /\ \A r \in Slots :
             /\ (runs[r].pc = "save" /\ Ends(r) /\ last'.outcome = "ok")
                   => WithinBound(data')
             /\ (Ends(r) /\ ~runs[r].keysMutated)
                   => UNCHANGED <<settings, data>>]_vars

(* A run has ended whose working ledger was above the bound, and data.json  *)
(* holds exactly the bound's number of entries                              *)
C4_Witness ==
    /\ last.outcome = "ok" /\ last.lost
    /\ Len(data) = MaxKeys(settings.maxImportedKeys)
    /\ data = settings.importedKeys
    /\ NoRunInFlight

----------------------------------------------------------------------------
(* Preconditions and the fetch *)

(* One of the four preconditions of importNow fails *)
PreconditionFails ==
    \/ normalizeApiUrl(settings.apiUrl) = <<>>
    \/ settings.apiKey = <<>>
    \/ ~settings.atomicNotesEnabled
    \/ Trim(settings.atomicNotesFolder) = <<>>

(* C5: an importNow call made while a precondition fails shows a notice,    *)
(* starts no run (so no fetch is issued) and changes neither the vault nor  *)
(* the settings nor data.json.                                              *)
C5_PreconditionFailureIsInert ==
    [][(calls' # calls /\ PreconditionFails)
          => /\ UNCHANGED <<settings, data, files, folder, daily, runs, last>>
             /\ notice' \notin {"", "Fetching notes..."}]_vars

C5_Witness ==
    /\ calls = MaxCalls /\ PreconditionFails
    /\ notice = "Set a folder for atomic notes in the settings."
    /\ NoRunInFlight /\ last = NoRun /\ ~folder

(* C6: a run whose fetch fails ends in the failed state with no record      *)
(* processed: vault, folder, daily files, settings and data.json are as     *)
(* they were.                                                               *)
C6_FetchFailureIsInert ==
    [][\A r \in Slots :
          (runs[r].pc = "fetch" /\ Ends(r) /\ last'.outcome = "failed")
          => /\ UNCHANGED <<settings, data, files, folder, daily>>
             /\ runs[r].i = 0 /\ runs[r].notes = <<>>
             /\ ~runs[r].keysMutated]_vars

(* A first call has failed at its fetch and nothing exists in the vault *)
C6_Witness ==
    /\ last.outcome = "failed" /\ calls = 1 /\ NoRunInFlight
    /\ ~folder /\ files = {} /\ daily = {} /\ data = settings.importedKeys

----------------------------------------------------------------------------
(* The per-record decisions *)

(* The record that call r is about to process is in the run's ledger *)
Known(r) == HasKey(runs[r].storedKeys, makeDedupeKey(Note(r)))

(* C7: in a run with force = false, a record whose fingerprint is in the    *)
(* run's ledger is counted as a skipped duplicate and nothing else happens: *)
(* no file, no daily file, whatever overwriteExisting and                   *)
(* linkBackToDailyNote are.                                                 *)
C7_DuplicateHasNoEffect ==
    [][\A r \in Slots :
          (InLoop(r) /\ ~runs[r].force /\ Known(r) /\ runs'[r] # runs[r])
          => /\ runs'[r] = [runs[r] EXCEPT !.skippedDuplicates = @ + 1, !.i = @ + 1]
             /\ UNCHANGED <<files, folder, daily, settings, data>>]_vars

(* A duplicate was skipped with both settings on, though its file is gone *)
C7_Witness ==
    \E r \in Slots :
        /\ runs[r].pc = "loop" /\ ~runs[r].force
        /\ runs[r].skippedDuplicates = 1 /\ runs[r].i = 2
        /\ HasKey(runs[r].storedKeys, makeDedupeKey(runs[r].notes[1]))
        /\ settings.overwriteExisting /\ settings.linkBackToDailyNote
        /\ files = {} /\ daily = {}

(* The record call r is about to process has a file at its path, is not in  *)
(* the run's ledger, and neither overwriteExisting nor force is set         *)
MeetsExisting(r) ==
    /\ InLoop(r) /\ ~Known(r)
    /\ Exists(files, TargetPath(r))
    /\ ~settings.overwriteExisting /\ ~runs[r].force

(* C8 as stated: every fingerprint added for a file that was left as it was *)
(* is in data.json when its run ends.                                       *)
C8_KeptKeyPersisted ==
    [][\A r \in Slots :
          Ends(r) => \A key \in runs[r].kept : HasKey(data', key)]_vars

(* C8, amended: the record is counted as skipped-existing, no file and no   *)
(* daily file changes, and its fingerprint enters the run's ledger; it is   *)
(* in data.json at the end of a run that ends without error and whose       *)
(* ledger did not exceed maxImportedKeys.                                   *)
C8_KeptKeyPersistedOnSuccess ==
    [][\A r \in Slots :
          /\ (MeetsExisting(r) /\ runs'[r] # runs[r])
                => /\ runs'[r] = [runs[r] EXCEPT
                                     !.storedKeys = Append(@, makeDedupeKey(Note(r))),
                                     !.keysMutated = TRUE,
                                     !.skippedExisting = @ + 1, !.i = @ + 1,
                                     !.kept = @ \cup {makeDedupeKey(Note(r))},
                                     !.added = @ \cup {makeDedupeKey(Note(r))},
                                     !.stale = @ \ {makeDedupeKey(Note(r))}]
                   /\ UNCHANGED <<files, folder, daily>>
          /\ (Ends(r) /\ last'.outcome = "ok" /\ WithinBound(runs[r].storedKeys))
                => \A key \in runs[r].kept : HasKey(data', key)]_vars

(* A run that skipped an existing file has ended, the file is as the user   *)
(* left it and the fingerprint is in data.json                              *)
C8_Witness ==
    /\ last.outcome = "ok" /\ ~last.force /\ NoRunInFlight
    /\ UserFile \in files
    /\ HasKey(data, makeDedupeKey(NoteAa))
    /\ ~settings.overwriteExisting /\ settings.linkBackToDailyNote
    /\ daily = {}

(* The body rendered for a record created at minute *)
Rendered(note, minute) ==
    processTemplate(settings.atomicNotesTemplate, TemplateData(note, minute))

----------------------------------------------------------------------------
(* File identity *)

(* The records of the server that importNow imports *)
Notes == {item \in Items : item.type = "note"}

(* The minutes a record's creation moment can resolve to *)
MinutesOf(note) == {resolveNoteMoment(note.createdAt, clock) : clock \in 0..MaxClock}

(* The atomic files of the vault that hold a rendering of note *)
FilesOf(note) ==
    {f \in files : \E minute \in MinutesOf(note) : f.text = Rendered(note, minute)}

(* The path of a record whose createdAt parses *)
StablePath(note) ==
    FileName(resolveBaseName(note, TriggerTags(settings.atomicNotesTags)),
             ParseMoment(note.createdAt).minute)

(* C10 as stated: one remote record never has more than one atomic file *)
C10_OneFilePerRecord ==
    \A note \in Notes : Cardinality(FilesOf(note)) <= 1

(* C10, amended: for a record whose createdAt parses, every write targets   *)
(* the one path made of its base name and its createdAt, at whatever time   *)
(* and with whatever force flag the run is made, so it never has more than  *)
(* one atomic file.                                                         *)
C10_OneFilePerDatedRecord ==
    /\ \A r \in Slots :
          (runs[r].pc = "write" /\ ParseMoment(runs[r].notes[runs[r].i].createdAt).valid)
          => runs[r].op.path = StablePath(runs[r].notes[runs[r].i])
    /\ \A note \in Notes :
          ParseMoment(note.createdAt).valid
          => \A f \in FilesOf(note) : f.path = StablePath(note)

(* A record dated at another minute than the current one is being written   *)
(* a second time, to the file an earlier run made for it                    *)
C10_Witness ==
    \E r \in Slots :
        /\ runs[r].pc = "write" /\ runs[r].op.kind = "modify"
        /\ ParseMoment(runs[r].notes[runs[r].i].createdAt).valid
        /\ runs[r].op.path.minute # now
        /\ [path |-> runs[r].op.path, text |-> runs[r].op.text] \in files

----------------------------------------------------------------------------
(* Daily notes *)

(* The number of places where part occurs in text *)
Occurrences(text, part) ==
    Cardinality({i \in 1..(Len(text) - Len(part) + 1) :
                    SubSeq(text, i, i + Len(part) - 1) = part})

(* The lines of a are lines of b, in their order *)
RECURSIVE IsSubsequence(_, _)
IsSubsequence(a, b) ==
    IF a = <<>> THEN TRUE
    ELSE IF b = <<>> THEN FALSE
    ELSE IF Head(a) = Head(b) THEN IsSubsequence(Tail(a), Tail(b))
    ELSE IsSubsequence(a, Tail(b))

(* C11: however many times linkToDailyNote has been invoked for a file and  *)
(* its moment, the daily file holds at most one embed reference to the      *)
(* file, and an invocation that finds the reference writes nothing.         *)
C11_OneEmbedPerFile ==
    \A d \in daily : \A f \in files : Occurrences(d.text, EmbedLink(f.path)) <= 1

(* The lines of a daily text that the configured heading matches *)
MatchingLines(lines, headingText) ==
    {k \in 1..Len(lines) : HeadingRegexTest(lines[k], headingText)}

Least(S) == CHOOSE k \in S : \A j \in S : k <= j

(* The first heading line of any level after line h, or one past the end *)
NextHeadingAfter(lines, h) ==
    LET later == {k \in (h + 1)..Len(lines) : IsHeadingLine(lines[k])}
    IN  IF later = {} THEN Len(lines) + 1 ELSE Least(later)

(* new is old with the embed put after the section of the first matching    *)
(* heading: the lines up to the section's end, a blank line unless the      *)
(* section ends with one, the embed, a blank line, the rest of old          *)
PlacedAfterSection(old, new, embed, headingText) ==
    LET h    == Least(MatchingLines(old, headingText))
        n    == NextHeadingAfter(old, h)
        at   == {e \in 1..Len(new) : new[e] = embed}
    IN  /\ Cardinality(at) = 1
        /\ LET e == Least(at)
           IN  /\ e >= n /\ e <= n + 1
               /\ SubSeq(new, 1, n - 1) = SubSeq(old, 1, n - 1)
               /\ \A k \in n..e : ~IsHeadingLine(new[k])
               /\ e = n + 1 => new[n] = <<>>
               /\ e < Len(new) /\ new[e + 1] = <<>>
               /\ SubSeq(new, e + 2, Len(new)) = SubSeq(old, n, Len(old))

(* C12: when a line of the daily file matches the configured heading, the   *)
(* text that linkToDailyNote writes holds the new embed after every line of *)
(* that heading's section and before the next heading line of any level,    *)
(* or at the end of the file when no heading follows.                       *)
C12_EmbedAfterSection ==
    [][\A r \in Slots :
          (/\ runs[r].pc = "dailyRead" /\ runs'[r].pc = "dailyWrite"
           /\ MatchingLines(Split(DailyText(Day(runs[r].op.path.minute))),
                            HeadingText(settings.sectionHeading)) # {})
          => /\ runs'[r].plan.kind = "modify"
             /\ PlacedAfterSection(Split(DailyText(Day(runs[r].op.path.minute))),
                                   Split(runs'[r].plan.text),
                                   EmbedLink(runs[r].op.path),
                                   HeadingText(settings.sectionHeading))]_vars

(* The embed is about to be written between an embed that was there and the *)
(* heading that follows the section                                         *)
C12_Witness ==
    \E r \in Slots :
        /\ runs[r].pc = "dailyWrite" /\ runs[r].plan.kind = "modify"
        /\ Includes(DailyText(0), <<"![[x]]", NL, "#", "#", " ", "Other">>)
        /\ Includes(runs[r].plan.text,
                    <<"![[x]]", NL, NL>> \o EmbedLink(runs[r].op.path)
                       \o <<NL, NL, "#", "#", " ", "Other">>)

(* The text of the daily file of day among the daily files dailies *)
TextIn(dailies, day) == (CHOOSE f \in dailies : f.day = day).text

(* C13: a write of linkToDailyNote only inserts: the lines the daily file   *)
(* held before the write are lines of what it holds after it, in the same   *)
(* order and unmodified.                                                    *)
C13_OnlyInserts ==
    [][\A r \in Slots :
          (runs[r].pc = "dailyWrite" /\ runs'[r].pc # "dailyWrite" /\ daily' # daily)
          => IsSubsequence(Split(TextIn(daily, Day(runs[r].op.path.minute))),
                           Split(TextIn(daily', Day(runs[r].op.path.minute))))]_vars

----------------------------------------------------------------------------
(* Saving the ledger *)

(* C14: at the end of the loop a run saves the ledger if and only if it     *)
(* added a fingerprint that its ledger did not hold: a run whose records    *)
(* were all in the ledger already, forced or not, saves nothing.  (Runs     *)
(* whose ledger is within maxImportedKeys and was not cleared meanwhile, so *)
(* that the ledger changes by additions only.)                              *)
C14_SaveIffChanged ==
    [][\A r \in Slots :
          (/\ runs[r].pc = "loop" /\ runs'[r].pc \in {"save", "idle"}
           /\ WithinBound(runs[r].storedKeys) /\ runs[r].stale = {})
          => (runs'[r].pc = "save" <=> runs[r].added # {})]_vars

----------------------------------------------------------------------------
(* Fingerprints *)

(* note.id || note.uuid || note.key *)
Identifier(note) ==
    IF Truthy(note.id) THEN note.id
    ELSE IF Truthy(note.uuid) THEN note.uuid ELSE note.key

SameOrigin(p, q) == p.createdAt = q.createdAt /\ Identifier(p) = Identifier(q)

(* The run imports two records and its ledger held none of their keys *)
ImportedPair(r) ==
    /\ runs[r].pc = "loop" /\ ~runs[r].force
    /\ Len(runs[r].notes) = 2 /\ runs[r].i = 3
    /\ runs[r].added = {runs[r].storedKeys[k] : k \in 1..Len(runs[r].storedKeys)}

(* C15: two records with the same createdAt and identifier and different    *)
(* markdown have different fingerprints.                                    *)
C15_ContentChangesKey ==
    \A r \in Slots : \A j, k \in 1..Len(runs[r].notes) :
        (/\ SameOrigin(runs[r].notes[j], runs[r].notes[k])
         /\ runs[r].notes[j].markdown # runs[r].notes[k].markdown)
        => makeDedupeKey(runs[r].notes[j]) # makeDedupeKey(runs[r].notes[k])

(* C15, amended: two records with the same createdAt and identifier whose   *)
(* markdown texts have different 32-bit hashes have different fingerprints, *)
(* and a run that meets both for the first time skips neither of them as a  *)
(* duplicate.                                                               *)
C15_HashChangesKey ==
    \A r \in Slots :
        /\ \A j, k \in 1..Len(runs[r].notes) :
              (/\ SameOrigin(runs[r].notes[j], runs[r].notes[k])
               /\ hashContent(runs[r].notes[j].markdown)
                    # hashContent(runs[r].notes[k].markdown))
              => makeDedupeKey(runs[r].notes[j]) # makeDedupeKey(runs[r].notes[k])
        /\ (/\ ImportedPair(r)
            /\ SameOrigin(runs[r].notes[1], runs[r].notes[2])
            /\ hashContent(runs[r].notes[1].markdown)
                 # hashContent(runs[r].notes[2].markdown))
           => runs[r].skippedDuplicates = 0

C15_Witness ==
    \E r \in Slots :
        /\ ImportedPair(r)
        /\ runs[r].notes = <<NoteAa, NoteTag>>
        /\ runs[r].createdCount = 2 /\ runs[r].skippedDuplicates = 0
        /\ Len(runs[r].storedKeys) = 2

(* The number of entries of keys equal to key *)
CountKey(keys, key) == Cardinality({k \in 1..Len(keys) : keys[k] = key})

SameFields(p, q) == SameOrigin(p, q) /\ p.markdown = q.markdown

(* C16: two records with equal createdAt, identifier and markdown have the  *)
(* same fingerprint, whatever their tags and whichever of id, uuid and key  *)
(* carries the identifier, and they collapse to one ledger entry: a run     *)
(* that meets both skips the second as a duplicate, and no ledger holds a   *)
(* fingerprint twice.                                                       *)
C16_SameFieldsSameKey ==
    /\ \A r \in Slots :
          /\ \A j, k \in 1..Len(runs[r].notes) :
                SameFields(runs[r].notes[j], runs[r].notes[k])
                => makeDedupeKey(runs[r].notes[j]) = makeDedupeKey(runs[r].notes[k])
          /\ (/\ runs[r].pc = "loop" /\ ~runs[r].force
              /\ Len(runs[r].notes) = 2 /\ runs[r].i = 3
              /\ SameFields(runs[r].notes[1], runs[r].notes[2]))
             => /\ runs[r].skippedDuplicates >= 1
                /\ CountKey(runs[r].storedKeys, makeDedupeKey(runs[r].notes[1])) = 1
          /\ \A k \in 1..Len(runs[r].storedKeys) :
                CountKey(runs[r].storedKeys, runs[r].storedKeys[k]) = 1
    /\ \A k \in 1..Len(settings.importedKeys) :
          CountKey(settings.importedKeys, settings.importedKeys[k]) = 1
    /\ \A k \in 1..Len(data) : CountKey(data, data[k]) = 1

C16_Witness ==
    \E r \in Slots :
        /\ runs[r].pc = "loop" /\ ~runs[r].force /\ runs[r].i = 3
        /\ runs[r].notes = <<[NoteAa EXCEPT !.uuid = "x"],
                             [NoteAa EXCEPT !.key = "x", !.tags = << <<"t">> >>]>>
        /\ runs[r].createdCount = 1 /\ runs[r].skippedDuplicates = 1
        /\ now = 1

----------------------------------------------------------------------------
(* Rendering *)

(* The template with each placeholder replaced by its value as it is, in    *)
(* one pass over the template                                               *)
LiteralRender(template, d) ==
    LET tagString == JoinTags(SelectSeq(d.tags, LAMBDA t : t # <<>>))
        Value(token) ==
            CASE LowerToken(token) = "{{content}}" -> d.content
              [] LowerToken(token) = "{{date}}" -> d.date
              [] LowerToken(token) = "{{time}}" -> d.time
              [] LowerToken(token) = "{{fullDateTime}}" -> d.fullDateTime
              [] LowerToken(token) = "{{tags}}" -> tagString
              [] OTHER -> <<token>>
        F[i \in 0..Len(template)] ==
            IF i = 0 THEN <<>> ELSE F[i - 1] \o Value(template[i])
    IN  F[Len(template)]

(* C17: the body written for a record is the template with every            *)
(* placeholder, in any letter case, replaced by its value inserted as it    *)
(* is; text inside an inserted value is neither expanded nor interpreted.   *)
C17_LiteralSubstitution ==
    \A r \in Slots :
        runs[r].pc = "write"
        => runs[r].op.text
            = LiteralRender(settings.atomicNotesTemplate,
                            TemplateData(runs[r].notes[runs[r].i],
                                         runs[r].op.path.minute))

----------------------------------------------------------------------------
(* Records without a usable timestamp *)

Undated(note) == ~ParseMoment(note.createdAt).valid

(* C18: a record whose createdAt is absent or does not parse, that is not a *)
(* duplicate and has no file at the path of the current minute, is next     *)
(* written through create at that path with the body rendered for the       *)
(* current minute, the run going on; and when that create completes, the    *)
(* file is in the vault and the record is counted as created.               *)
C18_UndatedUsesNow ==
    [][\A r \in Slots :
          /\ (/\ InLoop(r) /\ Undated(Note(r))
              /\ ~IsDuplicate(runs[r].force, runs[r].storedKeys,
                              makeDedupeKey(Note(r)))
              /\ ~\E f \in files :
                    f.path = FileName(resolveBaseName(Note(r),
                                          TriggerTags(settings.atomicNotesTags)), now)
              /\ runs'[r] # runs[r])
             => /\ runs'[r].pc = "write"
                /\ runs'[r].op.kind = "create"
                /\ runs'[r].op.path.minute = now
                /\ runs'[r].op.path = TargetPath(r)
                /\ runs'[r].op.text = Rendered(Note(r), now)
                /\ notice' = notice /\ last' = last
          /\ (/\ runs[r].pc = "write" /\ runs[r].op.kind = "create"
              /\ Undated(runs[r].notes[runs[r].i])
              /\ runs'[r] # runs[r] /\ files' # files)
             => /\ [path |-> runs[r].op.path, text |-> runs[r].op.text] \in files'
                /\ runs'[r].createdCount = runs[r].createdCount + 1
                /\ runs'[r].pc \notin {"idle"}]_vars

C18_Witness ==
    \E r \in Slots : \E f \in files :
        /\ runs[r].pc = "loop" /\ runs[r].i = 2 /\ runs[r].createdCount = 1
        /\ runs[r].notes[1].createdAt = "bad"
        /\ now = 1
        /\ f.path.minute = 1
        /\ f.text = Rendered(runs[r].notes[1], 1)

----------------------------------------------------------------------------
(* Forgetting the history *)

KeysOf(keys) == {keys[k] : k \in 1..Len(keys)}

(* C19: after the history was cleared, a fingerprint that was recorded      *)
(* before the clear and whose record was not imported again since (stale)   *)
(* returns neither to settings.importedKeys nor to data.json, also when the *)
(* clear happened while the run was in flight.                              *)
C19_ForgottenStaysForgotten ==
    [][\A r \in Slots : \A key \in runs[r].stale :
          runs'[r] # runs[r]
          => /\ key \notin KeysOf(settings'.importedKeys)
             /\ key \notin KeysOf(data')]_vars

----------------------------------------------------------------------------
(* The payload filter *)

Dropped(item) == item.type # "note" \/ ~IsString(item.markdown)

Minutes == 0..MaxClock

(* The records of a run that were counted *)
CountSum(run) ==
    run.createdCount + run.updatedCount + run.skippedDuplicates + run.skippedExisting

(* C20: a fetched item whose type is not 'note' or whose markdown is not a  *)
(* string is not among the records of a run, and there is no atomic file,   *)
(* no embed in a daily note and no ledger entry for it; a run counts at     *)
(* most as many records as its payload holds valid notes.                   *)
C20_DroppedLeaveNoTrace ==
    /\ \A r \in Slots :
          /\ \A k \in 1..Len(runs[r].notes) : ~Dropped(runs[r].notes[k])
          /\ CountSum(runs[r])
               <= Cardinality({k \in 1..Len(remote.items) : ~Dropped(remote.items[k])})
    /\ \A k \in 1..Len(remote.items) :
          Dropped(remote.items[k])
          => LET item == remote.items[k]
                 key  == makeDedupeKey(item)
             IN  /\ key \notin KeysOf(settings.importedKeys) \cup KeysOf(data)
                 /\ \A r \in Slots : key \notin KeysOf(runs[r].storedKeys)
                 /\ \A m \in Minutes :
                       LET path == NotePath(item, TriggerTags(settings.atomicNotesTags), m)
                       IN  /\ \A f \in files :
                                 f.path # path /\ f.text # Rendered(item, m)
                           /\ \A d \in daily : ~Includes(d.text, EmbedLink(path))

C20_Witness ==
    /\ remote.items = <<Numbered, [NoteAa EXCEPT !.id = "x"]>>
    /\ last.outcome = "ok" /\ NoRunInFlight
    /\ Cardinality(files) = 1 /\ Cardinality(daily) = 1
    /\ Len(data) = 1

----------------------------------------------------------------------------
(* Eviction *)

(* The last n entries of keys, in their order *)
Newest(keys, n) ==
    [k \in 1..(IF Len(keys) <= n THEN Len(keys) ELSE n) |->
        keys[k + (IF Len(keys) <= n THEN 0 ELSE Len(keys) - n)]]

(* C21: the working ledger of a run changes only by appending a key it did  *)
(* not hold; meeting a key it holds, through the duplicate check or a       *)
(* forced re-import, leaves its order as it was.  At the flush the ledger   *)
(* becomes the newest maxImportedKeys entries of the working ledger, in     *)
(* their order, and that is what the save writes to data.json.              *)
C21_EvictsOldestFirst ==
    [][\A r \in Slots :
          /\ (runs[r].pc # "idle" /\ runs'[r].pc # "idle")
             => \/ runs'[r].storedKeys = runs[r].storedKeys
                \/ /\ InLoop(r) \/ runs[r].pc = "write"
                   /\ ~HasKey(runs[r].storedKeys, makeDedupeKey(Note(r)))
                   /\ runs'[r].storedKeys
                       = Append(runs[r].storedKeys, makeDedupeKey(Note(r)))
          /\ (runs[r].pc = "loop" /\ runs'[r].pc = "save")
             => /\ settings'.importedKeys
                    = Newest(runs[r].storedKeys, MaxKeys(settings.maxImportedKeys))
                /\ runs'[r].plan.text = settings'.importedKeys
          /\ (runs[r].pc = "save" /\ runs'[r].pc = "idle" /\ last'.outcome = "ok")
             => data' = runs[r].plan.text]_vars

C21_Witness ==
    \E r \in Slots :
        /\ runs[r].pc = "save" /\ runs[r].force
        /\ runs[r].notes = <<NoteNow>>
        /\ runs[r].storedKeys = <<makeDedupeKey(NoteNow), makeDedupeKey(NoteAa)>>
        /\ runs[r].plan.text = <<makeDedupeKey(NoteAa)>>
        /\ settings.importedKeys = <<makeDedupeKey(NoteAa)>>
        /\ runs[r].createdCount + runs[r].updatedCount = 1

(* The step is one of run r: more than its observation fields changes *)
OwnStep(r) == [runs'[r] EXCEPT !.stale = runs[r].stale, !.prev = runs[r].prev] # runs[r]

(* C22: a run replaces the ledger at most once, after its last record, and  *)
(* only if it added a key that its working ledger did not hold; while       *)
(* records are processed no key leaves the working ledger, so a record met  *)
(* a second time in the same batch without force is skipped as a duplicate. *)
C22_EvictsOnceAtEnd ==
    [][\A r \in Slots :
          /\ (runs[r].pc # "idle" /\ runs'[r].pc # "idle")
             => KeysOf(runs[r].storedKeys) \subseteq KeysOf(runs'[r].storedKeys)
          /\ (OwnStep(r) /\ runs[r].pc # "idle"
              /\ settings'.importedKeys # settings.importedKeys)
             => /\ runs[r].pc = "loop" /\ runs[r].i > Len(runs[r].notes)
                /\ runs'[r].pc = "save"
                /\ runs[r].added # {}
          /\ (runs[r].pc = "save" /\ runs'[r].pc # "save") => runs'[r].pc = "idle"
          /\ (/\ InLoop(r) /\ ~runs[r].force
              /\ \E j \in 1..(runs[r].i - 1) : runs[r].notes[j] = Note(r)
              /\ runs'[r] # runs[r])
             => /\ runs'[r].skippedDuplicates = runs[r].skippedDuplicates + 1
                /\ runs'[r].pc = "loop" /\ files' = files]_vars

----------------------------------------------------------------------------
(* Failures while a record is processed *)

IsPrefix(a, b) == Len(a) <= Len(b) /\ SubSeq(b, 1, Len(a)) = a

(* Run r fails in the write or the daily link of a record *)
RecordFails(r) ==
    /\ runs[r].pc \in {"write", "dailyCreate", "dailyRead", "dailyWrite"}
    /\ runs'[r].pc = "idle"

(* C23: when the write or the daily link of a record fails, the run ends    *)
(* there in the failed state: no file and no daily note changes in that     *)
(* step or for a later record, and the ledger in memory and in data.json    *)
(* stays the one the run started from, without the keys of the records the  *)
(* run had written.                                                         *)
C23_RecordFailureAborts ==
    [][\A r \in Slots :
          RecordFails(r)
          => /\ last'.outcome = "failed"
             /\ runs'[r] = IdleRun
             /\ files' = files /\ daily' = daily
             /\ settings' = settings /\ data' = data
             /\ IsPrefix(settings.importedKeys, runs[r].storedKeys)
             /\ KeysOf(settings'.importedKeys) \cap runs[r].added = {}]_vars

C23_Witness ==
    /\ last.outcome = "failed" /\ NoRunInFlight /\ calls = 1
    /\ remote.items = <<NoteAa, NoteTag>>
    /\ ~settings.linkBackToDailyNote
    /\ Cardinality(files) = 1
    /\ settings.importedKeys = <<>> /\ data = <<>>

----------------------------------------------------------------------------
(* Link-back *)

(* The daily file of the path's day holds an embed of the file at path *)
Embedded(dailies, path) ==
    \E d \in dailies : d.day = Day(path.minute) /\ Includes(d.text, EmbedLink(path))

(* Run r ends without an error *)
EndsOk(r) == runs[r].pc # "idle" /\ runs'[r].pc = "idle" /\ last'.outcome = "ok"

(* C24: when a run ends without an error and link-back is enabled, every    *)
(* file the run created or modified is embedded in the daily file of its    *)
(* creation day; with link-back disabled no step of a run creates or        *)
(* changes a daily file.                                                    *)
C24_WrittenFilesAreLinked ==
    [][\A r \in Slots :
          /\ (EndsOk(r) /\ settings.linkBackToDailyNote)
             => \A path \in runs[r].written : Embedded(daily', path)
          /\ (OwnStep(r) /\ ~settings.linkBackToDailyNote) => daily' = daily]_vars


(* The paths of the records whose createdAt parses *)
DatedPaths ==
    {NotePath(note, TriggerTags(<< <<"a">>, <<" ", "B">> >>), 0) :
        note \in {n \in Notes : ~Undated(n)}}

AllPaths ==
    {NotePath(note, TriggerTags(<< <<"a">>, <<" ", "B">> >>), m) :
        note \in Notes, m \in Minutes}

(* The last run failed and left the file at path without an embed *)
Orphan(path) ==
    /\ last.outcome = "failed" /\ NoRunInFlight
    /\ Exists(files, path) /\ ~Embedded(daily, path)

(* C25: with link-back enabled, a file that a failed run created and did    *)
(* not embed is embedded in its daily file after importNow(false) is        *)
(* repeated on the same batch without further failures.                     *)
C25_RetryLinksOrphan ==
    \A path \in AllPaths : Orphan(path) ~> Embedded(daily, path)

(* C25, amended: ... when the overwrite setting is enabled and the record's *)
(* createdAt parses, so that the repeated run meets the file at the same    *)
(* path and writes it again.                                                *)
C25_RetryLinksOverwritten ==
    \A path \in DatedPaths :
        (Orphan(path) /\ settings.overwriteExisting) ~> Embedded(daily, path)

C25_Witness ==
    \E r \in Slots :
        /\ runs[r].prev.outcome = "failed" /\ ~runs[r].force
        /\ settings.overwriteExisting
        /\ runs[r].notes = <<NoteAa>>
        /\ runs[r].pc = "loop" /\ runs[r].i = 2 /\ runs[r].updatedCount = 1
        /\ Embedded(daily, NotePath(NoteAa, TriggerTags(settings.atomicNotesTags), now))

----------------------------------------------------------------------------
(* Files of one run *)

(* The first call of importNow, which in SpecRecords meets an empty folder *)
FirstRun(r) == runs[r].prev = NoRun /\ calls = 1

(* The records of a batch whose fingerprint an earlier record has *)
Repeats(notes) ==
    {k \in 1..Len(notes) :
        \E j \in 1..(k - 1) : makeDedupeKey(notes[j]) = makeDedupeKey(notes[k])}

(* The fingerprint of record k is that of no other record of the batch *)
Unique(notes, k) ==
    \A j \in 1..Len(notes) :
        j # k => makeDedupeKey(notes[j]) # makeDedupeKey(notes[k])

(* p and q may be given the same file name *)
SamePlace(p, q) ==
    \E m1, m2 \in Minutes :
        NotePath(p, TriggerTags(settings.atomicNotesTags), m1)
          = NotePath(q, TriggerTags(settings.atomicNotesTags), m2)

(* A file at the path of note holds the body rendered for note *)
HasOwnFile(note, vault) ==
    \E f \in vault, m \in Minutes :
        /\ f.path = NotePath(note, TriggerTags(settings.atomicNotesTags), m)
        /\ f.text = Rendered(note, m)

(* Every record with a fingerprint of its own has its file, no record was   *)
(* skipped against a file, and only repeats of a fingerprint were written   *)
(* over a file                                                              *)
EachHasItsFile(run, vault) ==
    /\ \A k \in 1..Len(run.notes) :
          Unique(run.notes, k) => HasOwnFile(run.notes[k], vault)
    /\ run.skippedExisting = 0
    /\ run.updatedCount <= Cardinality(Repeats(run.notes))

Apart(notes) ==
    \A j, k \in 1..Len(notes) :
        makeDedupeKey(notes[j]) # makeDedupeKey(notes[k])
        => ~SamePlace(notes[j], notes[k])

----------------------------------------------------------------------------
(* The summary of a run *)

(* The records of run that the loop has finished with *)
Handled(run) ==
    IF run.pc = "loop" THEN run.i - 1
    ELSE IF run.pc \in {"dailyCreate", "dailyRead", "dailyWrite"} THEN run.i
    ELSE IF run.pc = "write" THEN run.i - 1
    ELSE IF run.pc = "save" THEN Len(run.notes)
    ELSE 0

(* C27: while a run works through its batch the four counts sum to the      *)
(* number of records it has finished with, each record adding one to one    *)
(* count; when a run on a non-empty batch ends without error they sum to    *)
(* the number of note records of the batch.                                 *)
C27_CountsSumToBatch ==
    [][\A r \in Slots :
          /\ CountSum(runs[r]) = Handled(runs[r])
          /\ runs'[r].pc \notin {"idle", "fetch", "folder"}
             => CountSum(runs'[r]) - CountSum(runs[r]) = Handled(runs'[r]) - Handled(runs[r])
          /\ (EndsOk(r) /\ runs[r].notes # <<>>)
             => /\ CountSum(runs[r]) = Len(runs[r].notes)
                /\ CountSum(runs[r])
                     = Cardinality({k \in 1..Len(remote.items) : ~Dropped(remote.items[k])})]_vars

C27_Witness ==
    \E r \in Slots :
        /\ runs[r].pc = "save" /\ Len(runs[r].notes) = 2
        /\ runs[r].createdCount = 1 /\ runs[r].skippedExisting = 1
        /\ runs[r].updatedCount = 0 /\ runs[r].skippedDuplicates = 0

(* The messages that report a run without work *)
ZeroWorkMessages == {"No new notes to import.", "Nothing new to import."}

(* C28: a run that ends without error and created and updated no file ends  *)
(* with a zero-work message; a run that created or updated a file ends with *)
(* the message 'Import complete.' and its counts.                           *)
C28_MessageTellsZeroWork ==
    [][\A r \in Slots :
          EndsOk(r)
          => IF runs[r].createdCount = 0 /\ runs[r].updatedCount = 0
             THEN last'.message \in ZeroWorkMessages
             ELSE last'.message = "Import complete."]_vars

----------------------------------------------------------------------------
(* The overwrite setting *)

(* C29: a forced run overwrites an existing file only when the setting      *)
(* 'Overwrite on force re-import' is enabled; with the setting disabled a   *)
(* forced run calls modify on no file and leaves every existing file as it  *)
(* was.                                                                     *)
C29_ForceOverwritesOnlyIfEnabled ==
    [][\A r \in Slots :
          (OwnStep(r) /\ runs[r].force /\ ~settings.overwriteExisting)
          => /\ runs'[r].op.kind # "modify"
             /\ \A f \in files : f \in files']_vars

----------------------------------------------------------------------------
(* The ledger follows the files *)

(* A record of run with fingerprint key has a file at its path *)
HasFile(run, key, vault) ==
    \E k \in 1..Len(run.notes), m \in Minutes :
        /\ makeDedupeKey(run.notes[k]) = key
        /\ Exists(vault, NotePath(run.notes[k], TriggerTags(settings.atomicNotesTags), m))

(* The path the run is working on: the one being written, or the one the    *)
(* loop computes for its current record                                     *)
PathAtHand(r) == IF runs[r].pc = "write" THEN runs[r].op.path ELSE TargetPath(r)

(* A write of run r fails *)
WriteFailed(r) ==
    runs[r].pc = "write" /\ runs'[r].pc = "idle" /\ last'.outcome = "failed"

(* C30: a run adds a fingerprint to its ledger only in a step after which a *)
(* file exists at the path of the record at hand, so every fingerprint a    *)
(* run has added belongs to one of its records with a file at its path; a   *)
(* failed create or modify ends the run with the persisted ledger and the   *)
(* settings as they were.                                                   *)
C30_KeyFollowsFile ==
    [][\A r \in Slots :
          /\ \A key \in runs[r].added : HasFile(runs[r], key, files)
          /\ (runs[r].pc \in {"loop", "write"} /\ runs'[r].pc # "idle"
              /\ runs[r].i <= Len(runs[r].notes)
              /\ runs'[r].storedKeys # runs[r].storedKeys)
             => /\ runs'[r].storedKeys
                     = Append(runs[r].storedKeys, makeDedupeKey(Note(r)))
                /\ Exists(files', PathAtHand(r))
          /\ WriteFailed(r)
             => /\ data' = data
                /\ settings' = settings
                /\ makeDedupeKey(Note(r)) \in KeysOf(data')
                   => makeDedupeKey(Note(r)) \in KeysOf(data)]_vars

C30_Witness ==
    \E r \in Slots :
        /\ runs[r].pc = "write" /\ runs[r].i = 2 /\ runs[r].createdCount = 1
        /\ runs[r].added = {makeDedupeKey(runs[r].notes[1])}
        /\ HasFile(runs[r], makeDedupeKey(runs[r].notes[1]), files)
        /\ makeDedupeKey(runs[r].notes[2]) \notin KeysOf(data)

----------------------------------------------------------------------------
(* One section per daily file *)

(* The lines of text that are the heading line of sectionHeading *)
HeadingLines(text, sectionHeading) ==
    {k \in 1..Len(Split(text)) : Split(text)[k] = HeadingLine(sectionHeading)}

(* C31: for every section-heading setting, linkToDailyNote appends a new    *)
(* section only to a daily file that does not hold the heading line yet: a  *)
(* later link finds the heading the first one appended and inserts beneath  *)
(* it, so the heading line occurs at most once in what is written.          *)
C31_SectionAppendedOnce ==
    [][\A r \in Slots :
          (/\ runs[r].pc = "dailyRead" /\ runs'[r].pc = "dailyWrite"
           /\ runs'[r].plan.kind = "append")
          => HeadingLines(DailyText(Day(runs[r].op.path.minute)),
                          settings.sectionHeading) = {}]_vars

----------------------------------------------------------------------------
(* File names *)

(* The positions of the trigger tags that a tag of note matches *)
TriggerHits(note, triggerTags) ==
    {k \in 1..Len(triggerTags) :
        \E i \in 1..Len(note.tags) : NormalizeNoteTag(note.tags[i]) = triggerTags[k]}

(* The first such trigger tag in configured order, first letter upper-cased *)
TitledTrigger(note, triggerTags) ==
    LET k   == CHOOSE h \in TriggerHits(note, triggerTags) :
                   \A j \in TriggerHits(note, triggerTags) : h <= j
        tag == triggerTags[k]
    IN  <<ToUpper(Head(tag))>> \o Tail(tag)

(* Run r computes the file name of its current record *)
NamesRecord(r) == runs[r].pc = "loop" /\ runs'[r].pc = "write"

(* C32: when a tag of the note is a trigger tag, the base name of its file  *)
(* is the first such trigger tag in configured order with its first letter  *)
(* upper-cased, whatever the order of the note's tags and its content.      *)
C32_NameIsFirstTrigger ==
    [][\A r \in Slots :
          (NamesRecord(r)
           /\ TriggerHits(Note(r), TriggerTags(settings.atomicNotesTags)) # {})
          => runs'[r].op.path.name
               = TitledTrigger(Note(r), TriggerTags(settings.atomicNotesTags))]_vars

(* C32, amended: ... upper-cased and then sanitised as a file name.         *)
C32_NameIsSanitizedFirstTrigger ==
    [][\A r \in Slots :
          (NamesRecord(r)
           /\ TriggerHits(Note(r), TriggerTags(settings.atomicNotesTags)) # {})
          => runs'[r].op.path.name
               = sanitizeFileName(
                     TitledTrigger(Note(r), TriggerTags(settings.atomicNotesTags)))]_vars

C32_Witness ==
    \E r \in Slots :
        /\ runs[r].pc = "write"
        /\ settings.atomicNotesTags = << <<"b">>, <<"a">>, <<"b">> >>
        /\ Note(r).tags = << <<"#", "A">>, <<"b">> >>
        /\ runs[r].op.path.name = <<"B">>

(* name is usable as a file name: not empty, none of \ / : * ? " < > |, no  *)
(* whitespace at its edges and no two whitespace characters in a row        *)
IsCleanName(name) ==
    /\ name # <<>>
    /\ \A i \in 1..Len(name) : ~IsInvalidFileChar(name[i])
    /\ ~IsSpace(name[1]) /\ ~IsSpace(name[Len(name)])
    /\ \A i \in 1..(Len(name) - 1) : ~(IsSpace(name[i]) /\ IsSpace(name[i + 1]))

(* C33: the base name computed for a record is a clean file name; when no   *)
(* tag of the note is a trigger tag it is at most 50 characters long, and   *)
(* it is 'Pebble Note' when the first line of the content is blank.         *)
C33_NameIsClean ==
    [][\A r \in Slots :
          NamesRecord(r)
          => /\ IsCleanName(runs'[r].op.path.name)
             /\ TriggerHits(Note(r), TriggerTags(settings.atomicNotesTags)) = {}
                => /\ Len(runs'[r].op.path.name) <= FirstLineMax
                   /\ Trim(FirstLine(Note(r).markdown)) = <<>>
                      => runs'[r].op.path.name = PebbleNote]_vars

C33_Witness ==
    \E r \in Slots :
        /\ runs[r].pc = "write"
        /\ Note(r).markdown = <<" ", "a", "/", " ", " ", "b", ":", NL, "t">>
        /\ runs[r].op.path.name = <<"a", "-", " ", "b", "-">>
        /\ \E f \in files : f.path.name = PebbleNote \/ Len(f.path.name) = FirstLineMax - 1

----------------------------------------------------------------------------
(* Failed fetches *)

(* The fetch of run r fails *)
FetchFailed(r) ==
    runs[r].pc = "fetch" /\ runs'[r].pc = "idle" /\ last'.outcome = "failed"

(* The messages that report no category of their own *)
GenericReports ==
    {"Import failed - ", "Import failed due to an unexpected error.",
     "Unknown error during import.", "API returned", "boom"}

(* C34: a failed fetch is reported as an authorization failure exactly when *)
(* the server answered 401 / unauthorized, as a network failure exactly     *)
(* when the network was unreachable, as a malformed response (a report of   *)
(* its own) when the body was not JSON, and as a generic failure otherwise. *)
C34_FailureCategories ==
    [][\A r \in Slots :
          FetchFailed(r)
          => /\ FaultOf(remote).cause = "unauthorized"
                <=> last'.message = "Authorization failed. Verify your API key."
             /\ FaultOf(remote).cause = "unreachable"
                <=> last'.message = "Network error. Check your connection and URL."
             /\ FaultOf(remote).cause = "malformed"
                => last'.message \notin GenericReports
             /\ FaultOf(remote).cause = "other"
                => last'.message \in GenericReports]_vars

----------------------------------------------------------------------------
(* Every change of the interval has been followed by setupAutoRun: no       *)
(* handler awaits saveSettings and none was cut short                       *)
Settled == timers.loaded /\ timers.pending = 0 /\ ~timers.unsynced

(* C35: once every change of the automatic sync interval has been followed  *)
(* by setupAutoRun, at most one interval is running, and one is running     *)
(* exactly when autoRunInterval is greater than 0; with the interval at 0   *)
(* nothing fires periodically                                               *)
C35_OneTimerIffPositive ==
    Settled => /\ Cardinality(timers.live) <= 1
               /\ (timers.live # {}) <=> (timers.autoRunInterval > 0)

(* The interval was changed from one positive value to another *)
C35_Witness ==
    /\ Settled
    /\ timers.issued = 2
    /\ timers.live = {2}
    /\ timers.autoRunInterval = 15

(* C36: once onunload has run, neither the interval nor the startup timeout *)
(* calls importNow again                                                    *)
C36_NoRunAfterUnload ==
    [][~timers.loaded => calls' = calls]_vars

====
